---- MODULE Spec2Model ----
(***************************************************************************)
(* Model of the municipality clustering pipeline of                        *)
(* src/src/analysis/clustering.py: load_municipality_data,                 *)
(* prepare_features, find_optimal_clusters, run_clustering,                *)
(* order_clusters_by_development, generate_cluster_profiles,               *)
(* export_to_dbt_seed and main.                                            *)
(*                                                                         *)
(* Numbers.  Indicators are floats in the program; the model keeps them as *)
(* small integers (an indicator value v stands for v / Unit).  A group     *)
(* mean is kept as the exact pair (sum, len), compared by cross            *)
(* multiplication.                                                         *)
(*                                                                         *)
(* Specifications:                                                         *)
(*   Spec            the whole of main(), run after run over a             *)
(*                   dim_municipio that changes between the runs, with a   *)
(*                   concurrent reader of the seed file;                   *)
(*   SpecOrder       order_clusters_by_development as a function of (df,   *)
(*                   labels), applied twice to the same input;             *)
(*   SpecPipeline    load_municipality_data, prepare_features,             *)
(*                   run_clustering and order_clusters_by_development      *)
(*                   called directly, one after the other, on batches with *)
(*                   missing and constant indicators;                      *)
(*   SpecScan        find_optimal_clusters called directly;                *)
(*   SpecExtract     extract_table of src/extraction/base_dos_dados.py;    *)
(*   SpecExtractAll  extract_all of the same file;                         *)
(*   SpecNavigation  the navigation state of the dashboard.                *)
(***************************************************************************)
EXTENDS Integers, Sequences, FiniteSets, TLC

VARIABLES
    warehouse,   \* the DuckDB file: [exists, rows]
    seedFile,    \* content of SEED_OUTPUT_PATH: NoFile or a sequence of CSV lines
    pc,          \* position of main()
    df,          \* main's local df
    X,           \* main's local X_scaled
    analysis,    \* main's local analysis
    labels,      \* main's local labels
    profiles,    \* main's local profiles
    console,     \* what the run has printed on stdout
    err,         \* the exception that ended this run, or NoError
    trace,       \* stages entered by this run, in order
    fileAtStart, \* seedFile as it was when this run started
    lastExport,  \* the in-memory seed_df of the most recent completed run
    observed,    \* what the concurrent reader last read from the seed path
    fits,        \* the k of every KMeans fit that returned in this run
    inK,         \* SpecOrder: the group count of the raw label vector
    runA,        \* SpecOrder: result of a first call on (df, labels)
    runB,        \* SpecOrder: result of a second call on (df, labels)
    features,    \* SpecPipeline: prepare_features' local X, before scaling
    rawFiles,    \* SpecExtract: the parquet files of output_dir, by file name
    queries,     \* SpecExtract: the queries sent to BigQuery, in order
    lastCall,    \* SpecExtract: the most recent call of extract_table
    extraction,    \* SpecExtractAll: the call of extract_all
    session,    \* SpecNavigation: the browser session of the dashboard
    env     \* what the program runs in: BigQuery's snapshot, faults so far, runs of main() started

vars == <<warehouse, seedFile, pc, df, X, analysis, labels, profiles, console,
          err, trace, fileAtStart, lastExport, observed, fits, inK, runA,
          runB, features, rawFiles, queries, lastCall,
          extraction,
          session,
          env>>

----------------------------------------------------------------------------
(* Bounds of the model *)

MaxOrderRows == 3   \* SpecOrder: rows of the input DataFrame
MaxOrderK == 3      \* SpecOrder: largest group count k
MaxIdhm == 2        \* SpecOrder: idhm_2010 takes the values 1..MaxIdhm
MaxRows == 11       \* Spec: rows of dim_municipio
MaxSil == 2         \* silhouette scores are levels 0..MaxSil, MaxSil being 1.0
Unit == 100         \* the integer that stands for the indicator value 1.0
MaxPipeRows == 3    \* SpecPipeline: rows of the tables built from RowKinds
MaxPipeK == 6       \* SpecPipeline: largest group count k
MaxScanRows == 12     \* SpecScan: rows of the matrix scanned
MaxScanDistinct == 6  \* SpecScan: distinct rows of the matrix scanned
MaxSnapshot == 2    \* SpecExtract: snapshots of the data BigQuery answers from
MaxCalls == 3       \* SpecExtract: queries sent to BigQuery
MaxFaults == 1      \* SpecExtract: failed imports, queries and writes
MaxRuns == 2        \* Spec: runs of main(), one after the other
MaxNavigations == 2 \* SpecNavigation: clicks on the ranking table
MaxRenders == 3     \* SpecNavigation: runs of the profile page after a click

(* Program constants *)
ProductionK == 5    \* main: run_clustering(X_scaled, n_clusters=5)
ScanMaxK == 10      \* find_optimal_clusters: max_k
ScanMinK == 2       \* find_optimal_clusters: range(2, max_k + 1)

----------------------------------------------------------------------------
(* Values *)

(* Values that are no number, as integers outside the range of every
   indicator, so that a column can hold them beside numbers *)
None == -9001           \* Python None / a polars null
NaN == -9002            \* numpy nan
NegInf == -9003         \* numpy -inf

NoError == "NoError"    \* no exception

(* CLUSTER_LABELS *)
CLUSTER_LABELS ==
    (0 :> "Polos de Desenvolvimento") @@
    (1 :> "Desenvolvimento Avancado") @@
    (2 :> "Em Desenvolvimento") @@
    (3 :> "Vulneraveis") @@
    (4 :> "Criticos")

----------------------------------------------------------------------------
(* polars helpers *)

RECURSIVE SumOver(_, _)
(* the sum of f[i] over the indices i of S *)
SumOver(f, S) ==
    IF S = {} THEN 0
    ELSE LET i == CHOOSE j \in S : TRUE IN f[i] + SumOver(f, S \ {i})

(* DataFrame.with_columns on one row: add or replace column name *)
WithColumn(r, name, val) == (name :> val) @@ r

(* DataFrame.drop on one row *)
DropColumn(r, name) == [f \in (DOMAIN r) \ {name} |-> r[f]]

(* DataFrame.select on one row *)
SelectColumns(r, names) == [f \in names |-> r[f]]

(* Expr.replace_strict(mapping, default=default) on one value *)
ReplaceStrict(mapping, default, v) ==
    IF v \in DOMAIN mapping THEN mapping[v] ELSE default

RECURSIVE Orderings(_)
(* every sequence listing each element of S once *)
Orderings(S) ==
    IF S = {} THEN {<<>>}
    ELSE UNION {{<<x>> \o s : s \in Orderings(S \ {x})} : x \in S}

----------------------------------------------------------------------------
(* order_clusters_by_development *)

(* the labels attached from the last row up *)
WithClusterRawReversed(d, l) ==
    [i \in DOMAIN d |-> WithColumn(d[i], "cluster_raw", l[Len(d) + 1 - i])]

(* df.with_columns(pl.Series("cluster_raw", labels)) *)
WithClusterRaw(d, l) == [i \in DOMAIN d |-> WithColumn(d[i], "cluster_raw", l[i])]

(* group_by("cluster_raw").agg(pl.col("idhm_2010").mean()): one row per raw
   group, the mean kept as (sum, len) *)
GroupMean(d, g) ==
    LET members == {i \in DOMAIN d : d[i].cluster_raw = g}
    IN  [cluster_raw |-> g,
         mean_idhm |-> [sum |-> SumOver([i \in DOMAIN d |-> d[i].idhm_2010], members),
                        len |-> Cardinality(members)]]

(* a >= b for means kept as (sum, len) *)
MeanGE(a, b) == a.sum * b.len >= b.sum * a.len

MeanEQ(a, b) == a.sum * b.len = b.sum * a.len

(* a comes before b, or may: descending by mean_idhm, or ascending *)
InOrder(a, b, descending) ==
    IF descending THEN MeanGE(a.mean_idhm, b.mean_idhm)
    ELSE MeanGE(b.mean_idhm, a.mean_idhm)

RECURSIVE Arrangements(_, _)
(* every sequence listing each row of the set G once, in order *)
Arrangements(G, descending) ==
    IF G = {} THEN {<<>>}
    ELSE UNION {{<<x>> \o s : s \in Arrangements(G \ {x}, descending)} :
                    x \in {y \in G : \A z \in G : InOrder(y, z, descending)}}

(* the groups sorted the wrong way round: ascending by mean_idhm *)
SortAscending(G) == Arrangements(G, FALSE)

(* .sort("mean_idhm", descending=True) of the group rows G.  group_by is
   called without maintain_order, so the groups come out in any order, and
   sort without maintain_order leaves rows with equal keys in any order: every
   descending arrangement of the groups is a possible value. *)
SortDescending(G) == Arrangements(G, TRUE)

(* cluster_means: the set of its possible values *)
ClusterMeans(d) ==
    SortDescending({GroupMean(d, g) : g \in {d[i].cluster_raw : i \in DOMAIN d}})

(* enumerate(...) started at 1 instead of 0 *)
ClusterMappingFromOne(cm) ==
    [g \in {cm[i].cluster_raw : i \in DOMAIN cm} |->
        CHOOSE i \in DOMAIN cm : cm[i].cluster_raw = g]

(* groups numbered by rank of their mean, equal means sharing a number *)
ClusterMappingByRank(cm) ==
    [g \in {cm[i].cluster_raw : i \in DOMAIN cm} |->
        LET me == CHOOSE i \in DOMAIN cm : cm[i].cluster_raw = g
        IN  Cardinality({j \in DOMAIN cm :
                ~MeanGE(cm[me].mean_idhm, cm[j].mean_idhm)})]

(* cluster_mapping = {row["cluster_raw"]: idx for idx, row in enumerate(...)} *)
ClusterMapping(cm) ==
    [g \in {cm[i].cluster_raw : i \in DOMAIN cm} |->
        (CHOOSE i \in DOMAIN cm : cm[i].cluster_raw = g) - 1]

(* cluster_id = cluster_raw.replace_strict(cluster_mapping, default=None) *)
WithClusterId(d, mapping) ==
    [i \in DOMAIN d |->
        WithColumn(d[i], "cluster_id", ReplaceStrict(mapping, None, d[i].cluster_raw))]

(* the label looked up by the raw id instead of the ordered id *)
WithClusterLabelFromRaw(d) ==
    [i \in DOMAIN d |->
        WithColumn(d[i], "cluster_label",
                   ReplaceStrict(CLUSTER_LABELS, "Desconhecido", d[i].cluster_raw))]

(* cluster_label = cluster_id.replace_strict(CLUSTER_LABELS, default="Desconhecido") *)
WithClusterLabel(d) ==
    [i \in DOMAIN d |->
        WithColumn(d[i], "cluster_label",
                   ReplaceStrict(CLUSTER_LABELS, "Desconhecido", d[i].cluster_id))]

(* the function from the chosen value cm of cluster_means on *)
OrderWith(d, cm) ==
    LET labelled == WithClusterLabel(WithClusterId(d, ClusterMapping(cm)))
    IN  [i \in DOMAIN labelled |-> DropColumn(labelled[i], "cluster_raw")]

(* order_clusters_by_development(df, labels): the set of its possible results *)
OrderClustersByDevelopment(d, l) ==
    LET raw == WithClusterRaw(d, l)
    IN  {OrderWith(raw, cm) : cm \in ClusterMeans(raw)}

----------------------------------------------------------------------------
(* load_municipality_data *)

(* the WHERE clause of the query *)
QueryFilter(r) ==
    /\ r.idhm_2010 # None
    /\ r.ivs_2010 # None
    /\ r.gini_2010 # None
    /\ r.renda_per_capita_2010 # None

RECURSIVE QueryRows(_)
(* the rows of dim_municipio the query returns, in table order *)
QueryRows(t) ==
    IF t = <<>> THEN <<>>
    ELSE (IF QueryFilter(Head(t)) THEN <<Head(t)>> ELSE <<>>) \o QueryRows(Tail(t))

(* the exception load_municipality_data raises on warehouse w, or NoError:
   the file is missing (line 63), or duckdb cannot bind the query because the
   table or one of its columns is missing (line 93) *)
LoadError(w) ==
    IF ~w.exists THEN "FileNotFoundError"
    ELSE IF ~w.columns THEN "BinderException"
    ELSE NoError

LoadMunicipalityData(w) == QueryRows(w.rows)

----------------------------------------------------------------------------
(* prepare_features.  Feature values are kept doubled, so that the median of
   an even number of values is an integer. *)

(* np.isfinite on a cell *)
IsFinite(v) == v \notin {None, NaN, NegInf}

RECURSIVE Log2(_)
Log2(x) == IF x <= 1 THEN 0 ELSE 1 + Log2(x \div 2)

(* 1 - pl.col(c): null stays null *)
Invert(v) == IF v = None THEN None ELSE Unit - v

(* pl.col(c).log(): log(0) = -inf, log of a negative is NaN, null stays null.
   Incomes are powers of two in the model and the logarithm is taken in units
   of ln 2. *)
Log(v) ==
    IF v = None THEN None
    ELSE IF v = 0 THEN NegInf
    ELSE IF v < 0 THEN NaN
    ELSE Log2(v)

(* df.with_columns([...]) of lines 112-119 *)
WithDerived(d) ==
    [i \in DOMAIN d |->
        WithColumn(
            WithColumn(
                WithColumn(d[i], "ivs_2010_inverted", Invert(d[i].ivs_2010)),
                "gini_2010_inverted", Invert(d[i].gini_2010)),
            "renda_per_capita_log", Log(d[i].renda_per_capita_2010))]

(* CLUSTERING_FEATURES / feature_cols *)
FeatureCols ==
    <<"idhm_2010", "idhm_educacao", "idhm_renda", "ivs_2010_inverted",
      "gini_2010_inverted", "renda_per_capita_log">>

(* one cell of df.select(feature_cols).to_numpy(): a null becomes NaN *)
ToNumpy(v) == IF v = None THEN NaN ELSE IF IsFinite(v) THEN 2 * v ELSE v

FeatureMatrix(d) ==
    [i \in DOMAIN d |-> [c \in DOMAIN FeatureCols |-> ToNumpy(d[i][FeatureCols[c]])]]

(* the lower of the two middle values taken for the median *)
MedianLowerMiddle(M, c) ==
    LET fin == {i \in DOMAIN M : IsFinite(M[i][c])}
        n == Cardinality(fin)
        At(p) == CHOOSE v \in {M[i][c] : i \in fin} :
                    /\ Cardinality({i \in fin : M[i][c] < v}) < p
                    /\ Cardinality({i \in fin : M[i][c] <= v}) >= p
    IN  IF n = 0 THEN NaN ELSE At((n + 1) \div 2)

(* np.nanmedian(col[np.isfinite(col)]); NaN when no entry is finite *)
Median(M, c) ==
    LET fin == {i \in DOMAIN M : IsFinite(M[i][c])}
        n == Cardinality(fin)
        \* the value at 1-based position p of the sorted finite entries
        At(p) == CHOOSE v \in {M[i][c] : i \in fin} :
                    /\ Cardinality({i \in fin : M[i][c] < v}) < p
                    /\ Cardinality({i \in fin : M[i][c] <= v}) >= p
    IN  IF n = 0 THEN NaN
        ELSE IF n % 2 = 1 THEN At((n + 1) \div 2)
        ELSE (At(n \div 2) + At(n \div 2 + 1)) \div 2

(* the loop of lines 135-140 *)
FillNonFinite(M) ==
    [i \in DOMAIN M |->
        [c \in DOMAIN M[i] |-> IF IsFinite(M[i][c]) THEN M[i][c] ELSE Median(M, c)]]

(* a NaN entry of the scaled matrix, whose entries are records *)
ZNaN == [num |-> 0, den2 |-> 0]

(* the division by the standard deviation done without a guard for zero: a
   column of zero variance becomes 0 / 0 *)
StandardizeUnguarded(M) ==
    LET fin(c) == {i \in DOMAIN M : IsFinite(M[i][c])}
        n(c) == Cardinality(fin(c))
        colsum(c) == SumOver([i \in DOMAIN M |-> M[i][c]], fin(c))
        colsq(c) == SumOver([i \in DOMAIN M |-> M[i][c] * M[i][c]], fin(c))
        den2(c) == n(c) * colsq(c) - colsum(c) * colsum(c)
    IN  [i \in DOMAIN M |->
            [c \in DOMAIN M[i] |->
                IF ~IsFinite(M[i][c]) \/ den2(c) = 0 THEN ZNaN
                ELSE [num |-> n(c) * M[i][c] - colsum(c), den2 |-> den2(c)]]]

(* StandardScaler().fit_transform: (x - mean) / std with the population std,
   kept exactly as num / sqrt(den2) with num = n*x - sum and
   den2 = n*sum(x^2) - sum^2; a zero std is replaced by 1; a NaN entry is left
   out of the fit and stays NaN (ZNaN) *)
Standardize(M) ==
    LET fin(c) == {i \in DOMAIN M : IsFinite(M[i][c])}
        n(c) == Cardinality(fin(c))
        colsum(c) == SumOver([i \in DOMAIN M |-> M[i][c]], fin(c))
        colsq(c) == SumOver([i \in DOMAIN M |-> M[i][c] * M[i][c]], fin(c))
        den2(c) == n(c) * colsq(c) - colsum(c) * colsum(c)
    IN  [i \in DOMAIN M |->
            [c \in DOMAIN M[i] |->
                IF ~IsFinite(M[i][c]) THEN ZNaN
                ELSE IF den2(c) = 0 THEN [num |-> 0, den2 |-> 1]
                ELSE [num |-> n(c) * M[i][c] - colsum(c), den2 |-> den2(c)]]]

(* the exception prepare_features raises, or NoError: StandardScaler refuses
   an array with no sample *)
PrepareError(d) == IF Len(d) = 0 THEN "ValueError" ELSE NoError

(* the local X of prepare_features when the loop of lines 135-140 has ended *)
FilledFeatures(d) == FillNonFinite(FeatureMatrix(WithDerived(d)))

(* prepare_features(df) = (X_scaled, df) *)
PrepareFeatures(d) ==
    [X |-> Standardize(FilledFeatures(d)),
     df |-> WithDerived(d)]

----------------------------------------------------------------------------
(* scikit-learn calls.  KMeans(random_state=42, n_init=10) is a function of X
   that the model does not compute; what the model keeps of it:
     - it refuses NaN input and fewer samples than clusters (ValueError);
     - equal rows of X get equal labels;
     - it returns min(k, number of distinct rows) non-empty groups (with
       fewer distinct rows than clusters it warns "Number of distinct
       clusters found smaller than n_clusters" and returns them). *)

Min(a, b) == IF a <= b THEN a ELSE b

HasNaN(M) == \E i \in DOMAIN M : \E c \in DOMAIN M[i] : M[i][c] = ZNaN

DistinctRows(M) == {M[i] : i \in DOMAIN M}

(* the exception KMeans(n_clusters=k).fit_predict(M) raises, or NoError *)
KMeansError(M, k) ==
    IF HasNaN(M) \/ Len(M) < k THEN "ValueError" ELSE NoError

(* the number of distinct labels fit_predict returns *)
NumLabels(M, k) == Min(k, Cardinality(DistinctRows(M)))

Abs(x) == IF x < 0 THEN -x ELSE x

(* the columns of M that do not hold one value in every row *)
VaryingCols(M) ==
    {c \in DOMAIN M[1] : \E i, j \in DOMAIN M : M[i][c] # M[j][c]}

(* labels taken before the iterations have converged: any partition *)
Unconverged(M, l) == TRUE

(* Lloyd's iteration has converged on the labels l (max_iter=300 is never
   reached on the handful of points of the model): every point is at least as
   near to the centre of its own group, the mean of the group, as to the
   centre of any other group.  Computed for points on a line, where one
   column c varies and the distance of two rows is the distance of their
   entries num / sqrt(den2) in c, den2 being the same for every row. *)
LloydStable(M, l) ==
    LET c == CHOOSE v \in VaryingCols(M) : TRUE
        x == [i \in DOMAIN M |-> M[i][c].num]
        members(g) == {i \in DOMAIN M : l[i] = g}
        n(g) == Cardinality(members(g))
        s(g) == SumOver(x, members(g))
    IN  \A i \in DOMAIN M : \A h \in {l[j] : j \in DOMAIN M} :
            Abs(x[i] * n(l[i]) - s(l[i])) * n(h) <= Abs(x[i] * n(h) - s(h)) * n(l[i])

(* the label vectors fit_predict may return: equal rows together in
   NumLabels groups, numbered in any way; for points on a line, a partition
   on which the iteration has converged (a restart may end in any of them,
   and the best of the n_init=10 restarts is one of them) *)
KMeansLabels(M, k) ==
    LET byRow == {f \in [DistinctRows(M) -> 0..(k - 1)] :
                    Cardinality({f[r] : r \in DistinctRows(M)}) = NumLabels(M, k)}
        all == {[i \in DOMAIN M |-> f[M[i]]] : f \in byRow}
    IN  IF Cardinality(VaryingCols(M)) = 1
        THEN {l \in all : LloydStable(M, l)}
        ELSE all

(* the exception silhouette_score raises on n samples in nl groups, or
   NoError: it needs 2 <= nl <= n - 1 *)
SilhouetteError(n, nl) ==
    IF 2 <= nl /\ nl <= n - 1 THEN NoError ELSE "ValueError"

----------------------------------------------------------------------------
(* find_optimal_clusters *)

(* the exception raised in the loop body for this k, or NoError *)
ScanErrorAt(M, k) ==
    IF KMeansError(M, k) # NoError THEN KMeansError(M, k)
    ELSE SilhouetteError(Len(M), NumLabels(M, k))

(* the k at which the loop raises; max_k + 1 when it does not *)
ScanStop(M, max_k) ==
    IF \E k \in ScanMinK..max_k : ScanErrorAt(M, k) # NoError
    THEN CHOOSE k \in ScanMinK..max_k :
            /\ ScanErrorAt(M, k) # NoError
            /\ \A j \in ScanMinK..(k - 1) : ScanErrorAt(M, j) = NoError
    ELSE max_k + 1

ScanError(M, max_k) ==
    IF ScanStop(M, max_k) <= max_k THEN ScanErrorAt(M, ScanStop(M, max_k)) ELSE NoError

(* the k of the fits that returned in the loop, in order *)
ScanFits(M, max_k) ==
    LET stop == ScanStop(M, max_k)
        last == IF stop <= max_k /\ KMeansError(M, stop) = NoError THEN stop ELSE stop - 1
    IN  [i \in 1..(last - ScanMinK + 1) |-> i + ScanMinK - 1]

(* kmeans.inertia_ for k groups, as far as the model knows it: 0 when every
   distinct row is a group of its own, positive (1) otherwise *)
Inertia(M, k) == IF Cardinality(DistinctRows(M)) <= k THEN 0 ELSE 1

(* silhouettes.index(max(silhouettes)) + 2 taken one k too far *)
BestKOffByOne(sil) ==
    (CHOOSE i \in DOMAIN sil :
        /\ \A j \in DOMAIN sil : sil[j] <= sil[i]
        /\ \A j \in 1..(i - 1) : sil[j] < sil[i]) + ScanMinK + 1

(* silhouettes.index(max(silhouettes)) + 2: the first k of the highest score *)
BestK(sil) ==
    (CHOOSE i \in DOMAIN sil :
        /\ \A j \in DOMAIN sil : sil[j] <= sil[i]
        /\ \A j \in 1..(i - 1) : sil[j] < sil[i]) + ScanMinK - 1

(* the dictionary returned, given the silhouette scores sil of k = 2..max_k *)
FindOptimalClusters(M, max_k, sil) ==
    [k_range |-> [i \in 1..(max_k - ScanMinK + 1) |-> i + ScanMinK - 1],
     inertias |-> [i \in 1..(max_k - ScanMinK + 1) |-> Inertia(M, i + ScanMinK - 1)],
     silhouettes |-> sil,
     best_k_silhouette |-> BestK(sil),
     recommended_k |-> ProductionK]

(* the silhouette scores the loop may compute for k = 2..max_k, which the
   model does not compute, as levels 0..MaxSil that keep their order.  With d
   distinct rows, the partition of every k >= d is the same one, a group per
   distinct row, and so is its score: 1.0 (MaxSil) when every row occurs
   more than once (each sample is at distance 0 from its group), lower when
   some row is alone in its group (such a sample scores 0).  For k < d a
   group holds two different rows and the score is below 1.0. *)
SilhouetteLists(M, max_k) ==
    LET d == Cardinality(DistinctRows(M))
        n == max_k - ScanMinK + 1
        alone == {i \in DOMAIN M : \A j \in DOMAIN M : M[j] = M[i] => j = i}
        mixed == {i \in 1..n : i + ScanMinK - 1 < d}
        whole == IF alone = {} THEN {MaxSil} ELSE 0..(MaxSil - 1)
    IN  {[i \in 1..n |-> IF i \in mixed THEN f[i] ELSE w] :
            f \in [mixed -> 0..(MaxSil - 1)], w \in whole}

----------------------------------------------------------------------------
(* run_clustering *)

(* the exception run_clustering(M, k) raises, or NoError *)
RunClusteringError(M, k) ==
    IF KMeansError(M, k) # NoError THEN KMeansError(M, k)
    ELSE SilhouetteError(Len(M), NumLabels(M, k))

(* the label vectors run_clustering(M, k) may return *)
RunClustering(M, k) == KMeansLabels(M, k)

----------------------------------------------------------------------------
(* generate_cluster_profiles *)

RECURSIVE MinOver(_, _)
MinOver(f, S) ==
    LET i == CHOOSE j \in S : TRUE
    IN  IF S = {i} THEN f[i] ELSE Min(f[i], MinOver(f, S \ {i}))

RECURSIVE MaxOver(_, _)
MaxOver(f, S) ==
    LET i == CHOOSE j \in S : TRUE
    IN  IF S = {i} THEN f[i] ELSE -Min(-f[i], -MaxOver(f, S \ {i}))

(* the aggregates of one (cluster_id, cluster_label) group; a mean is kept as
   (sum, len), the sample standard deviation as the pair it is computed from *)
ProfileRow(d, key) ==
    LET members == {i \in DOMAIN d : <<d[i].cluster_id, d[i].cluster_label>> = key}
        col(name) == [i \in DOMAIN d |-> d[i][name]]
        sum(name) == SumOver(col(name), members)
        n == Cardinality(members)
        mean(name) == [sum |-> sum(name), len |-> n]
    IN  [cluster_id |-> key[1],
         cluster_label |-> key[2],
         num_municipios |-> n,
         total_populacao |-> sum("populacao"),
         avg_idhm |-> mean("idhm_2010"),
         std_idhm |-> [sumsq |-> SumOver([i \in DOMAIN d |-> d[i].idhm_2010 * d[i].idhm_2010],
                                         members),
                       sum |-> sum("idhm_2010"), len |-> n],
         min_idhm |-> MinOver(col("idhm_2010"), members),
         max_idhm |-> MaxOver(col("idhm_2010"), members),
         avg_ivs |-> mean("ivs_2010"),
         avg_gini |-> mean("gini_2010"),
         avg_renda_pc |-> mean("renda_per_capita_2010")]

(* the profiles without the final sort: the groups in the order group_by
   gives them, which is any order *)
GenerateClusterProfilesUnsorted(d) ==
    LET keys == {<<d[i].cluster_id, d[i].cluster_label>> : i \in DOMAIN d}
    IN  {[i \in DOMAIN o |-> ProfileRow(d, o[i])] : o \in Orderings(keys)}

(* group_by("cluster_id", "cluster_label").agg([...]).sort("cluster_id"): the
   possible results (groups of equal cluster_id, were there any, in any order) *)
GenerateClusterProfiles(d) ==
    LET keys == {<<d[i].cluster_id, d[i].cluster_label>> : i \in DOMAIN d}
    IN  {[i \in DOMAIN o |-> ProfileRow(d, o[i])] : o \in
            {o \in Orderings(keys) :
                \A i \in 1..(Len(o) - 1) : o[i][1] <= o[i + 1][1]}}

----------------------------------------------------------------------------
(* export_to_dbt_seed.  A CSV file is a sequence of lines, a line a sequence
   of fields, a field a string. *)

(* the text of the IBGE code of municipality i *)
IbgeCode(i) ==
    <<"1100015", "1100023", "1100031", "1100049", "1100056", "1100064", "1100072",
      "1100080", "1100098", "1100106", "1100114", "1100122", "1100130", "1100148",
      "1100155", "1100189">>[i]

(* an integer of 0..9 as CSV text *)
IntText(n) == <<"0", "1", "2", "3", "4", "5", "6", "7", "8", "9">>[n + 1]

(* one cell as write_csv writes it: a null is the empty field *)
CsvInt(v) == IF v = None THEN "" ELSE IntText(v)

(* the integer a CSV field parses to; the empty field is a null, and text
   that is no integer is no number *)
ParseInt(t) ==
    IF t = "" THEN None
    ELSE IF \E n \in 0..9 : IntText(n) = t THEN CHOOSE n \in 0..9 : IntText(n) = t
    ELSE NaN

SeedColumns == <<"id_municipio_ibge", "cluster_id", "cluster_label">>

(* seed_df = df.select([...]) *)
SeedDf(d) ==
    [i \in DOMAIN d |-> SelectColumns(d[i], {SeedColumns[c] : c \in DOMAIN SeedColumns})]

(* the line write_csv writes for one row *)
CsvLine(r) == <<r.id_municipio_ibge, CsvInt(r.cluster_id), r.cluster_label>>

(* the lines write_csv writes for seed_df: the header, then one per row *)
CsvLines(sd) == <<SeedColumns>> \o [i \in DOMAIN sd |-> CsvLine(sd[i])]

(* a file that does not exist *)
NoFile == [exists |-> FALSE, lines |-> <<>>]

(* opening the path for writing creates the file or truncates it *)
OpenForWrite(f) == [exists |-> TRUE, lines |-> <<>>]

(* writing lines at the end of the open file *)
WriteLines(f, ls) == [exists |-> TRUE, lines |-> f.lines \o ls]

(* reading a seed file back: the rows under the header, columns by name *)
ReadCsv(f) ==
    LET head == f.lines[1]
        at(name) == CHOOSE c \in DOMAIN head : head[c] = name
        body == Tail(f.lines)
    IN  [i \in DOMAIN body |->
            [id_municipio_ibge |-> body[i][at("id_municipio_ibge")],
             cluster_id |-> ParseInt(body[i][at("cluster_id")]),
             cluster_label |-> body[i][at("cluster_label")]]]

----------------------------------------------------------------------------
(* The environment of main(): the warehouse it reads *)

(* row i of dim_municipio, with indicator vector number t.  Vectors 1 and 2
   share their idhm_2010 and differ in ivs_2010; every other vector has an
   idhm_2010 of its own.  The columns the pipeline only carries along
   (nome_municipio, sigla_uf, regiao, porte_municipio, idhm_longevidade) are
   left out. *)
MunicipalityRow(i, t) ==
    [id_municipio_ibge |-> IbgeCode(i),
     populacao |-> 100 * t,
     idhm_2010 |-> IF t <= 2 THEN 1 ELSE t - 1,
     idhm_educacao |-> 1,
     idhm_renda |-> 1,
     ivs_2010 |-> IF t = 1 THEN 1 ELSE 0,
     gini_2010 |-> 1,
     renda_per_capita_2010 |-> 1]

(* a table of n rows that cycle through d indicator vectors *)
Table(n, d) == [i \in 1..n |-> MunicipalityRow(i, ((i - 1) % d) + 1)]

(* dim_municipio as main() finds it: up to MaxRows municipalities with as
   many distinct indicator vectors as the production clustering has groups,
   at most (more distinct vectors than groups: SpecPipeline and SpecScan) *)
Tables == {Table(n, d) : n \in 0..MaxRows, d \in 1..ProductionK}

(* the states of the warehouse file: missing, without the table's columns,
   or readable *)
Warehouses(rows) ==
    {[exists |-> FALSE, columns |-> TRUE, rows |-> rows],
     [exists |-> TRUE, columns |-> FALSE, rows |-> rows],
     [exists |-> TRUE, columns |-> TRUE, rows |-> rows]}

----------------------------------------------------------------------------
(* src/extraction/base_dos_dados.py: TableConfig and
   BaseDadosExtractor.extract_table.  An optional string (str | None) is a
   sequence: <<>> for None, <<s>> for the string s. *)

NoString == <<>>

(* the truth value Python gives an optional string: None and "" are false *)
Truthy(o) == o # NoString /\ o[1] # ""

(* the configurations extract_table is called with one by one, and those of
   the lists passed to extract_all: two of BASE_TABLES, which share their
   table name, and one with a custom query and an empty output_name *)
TableConfigs ==
    {[dataset |-> "br_bd_diretorios_brasil", table |-> "municipio",
      query |-> NoString, output_name |-> NoString],
     [dataset |-> "br_ibge_populacao", table |-> "municipio",
      query |-> NoString, output_name |-> <<"populacao">>],
     [dataset |-> "br_tse_eleicoes", table |-> "candidatos",
      query |-> <<"SELECT ... FROM candidatos WHERE ano >= 2000">>,
      output_name |-> <<"">>]}

(* TableConfig.filename: self.output_name or self.table *)
Filename(config) ==
    IF Truthy(config.output_name) THEN config.output_name[1] ELSE config.table

(* output_path = self.output_dir / f"{config.filename}.parquet" *)
OutputPath(config) == <<Filename(config), ".parquet">>

(* DEFAULT_TABLES: BASE_TABLES + [ELECTORAL_TABLES[0]] + FISCAL_TABLES +
   [INFRASTRUCTURE_TABLES[0]] *)
DefaultTables ==
    <<[dataset |-> "br_bd_diretorios_brasil", table |-> "municipio",
       query |-> NoString, output_name |-> NoString],
      [dataset |-> "br_ibge_populacao", table |-> "municipio",
       query |-> NoString, output_name |-> <<"populacao">>],
      [dataset |-> "br_ibge_pib", table |-> "municipio",
       query |-> NoString, output_name |-> <<"pib_municipio">>],
      [dataset |-> "br_pnud_atlas", table |-> "municipio",
       query |-> NoString, output_name |-> <<"idhm">>],
      [dataset |-> "br_tse_eleicoes", table |-> "resultados_candidato_municipio",
       query |-> <<"SELECT * FROM resultados_candidato_municipio WHERE cargo = 'prefeito'">>,
       output_name |-> NoString],
      [dataset |-> "br_me_siconfi", table |-> "municipio_despesas_funcao",
       query |-> NoString, output_name |-> NoString],
      [dataset |-> "br_me_siconfi", table |-> "municipio_receitas_orcamentarias",
       query |-> NoString, output_name |-> NoString],
      [dataset |-> "br_mdr_snis", table |-> "municipio",
       query |-> NoString, output_name |-> <<"saneamento_municipio">>]>>

(* the paths of output_dir the model follows: those of the configurations,
   and the name an empty output_name would give if it were used *)
RawPaths ==
    {<<Filename(c), ".parquet">> :
        c \in TableConfigs \cup {DefaultTables[i] : i \in DOMAIN DefaultTables}}
    \cup {<<"", ".parquet">>}

(* _build_query: the custom query, or SELECT * of the table *)
BuildQuery(config) ==
    IF Truthy(config.query)
    THEN [text |-> config.query[1], dataset |-> "", table |-> ""]
    ELSE [text |-> "SELECT * FROM", dataset |-> config.dataset, table |-> config.table]

(* no DataFrame; as the content of a file that exists, a file that cannot be
   read (a write that failed half-way) *)
NoData == [query |-> [text |-> "", dataset |-> "", table |-> ""], snapshot |-> 0]

(* the DataFrame bd.read_sql returns for query q when BigQuery holds its
   snapshot number v of the data (v >= 1) *)
ReadSql(q, v) == [query |-> q, snapshot |-> v]

(* a parquet file that does not exist *)
NoParquet == [exists |-> FALSE, data |-> NoData]

(* df.write_parquet(output_path): the file is created or replaced *)
WriteParquet(files, path, data) ==
    [files EXCEPT ![path] = [exists |-> TRUE, data |-> data]]

(* pl.read_parquet(output_path) *)
ReadParquet(files, path) == files[path].data

(* if output_path.exists() and not force *)
UseCache(files, config, force) == files[OutputPath(config)].exists /\ ~force

NoRawFiles == [p \in RawPaths |-> NoParquet]

(* no call of extract_table.  pc is the place of the call: "read" before
   pl.read_parquet (line 322), "query" before the import and the query
   (lines 330-338), "write" before from_pandas and write_parquet (lines
   341-344), "idle" outside a call *)
NoCall ==
    [pc |-> "idle", done |-> FALSE, config |-> CHOOSE c \in TableConfigs : TRUE,
     force |-> FALSE, raised |-> NoError, result |-> NoData,
     filesBefore |-> NoRawFiles, queriesBefore |-> <<>>]

(* extract_table(config, force=force) up to the test of line 320 on the
   files and with the queries sent so far *)
StartCall(files, sent, config, force) ==
    [NoCall EXCEPT !.pc = IF UseCache(files, config, force) THEN "read" ELSE "query",
                   !.config = config, !.force = force,
                   !.filesBefore = files, !.queriesBefore = sent]

(* BaseDadosExtractor.extract_all *)

(* the table names of the configurations: the keys results can hold *)
TableNames ==
    {c.table : c \in TableConfigs \cup {DefaultTables[i] : i \in DOMAIN DefaultTables}}

(* len(results) *)
LenResults(results) == Cardinality({t \in TableNames : results[t].present})

(* no call of extract_all; results is the dictionary, empty as
   results: dict[str, pl.DataFrame] = {} leaves it *)
NoExtraction ==
    [called |-> FALSE, arg |-> <<>>, force |-> FALSE, tables |-> <<>>, i |-> 0,
     waiting |-> FALSE,
     results |-> [t \in TableNames |-> [present |-> FALSE, data |-> NoData]], processed |-> <<>>,
     extracted |-> {}, returned |-> FALSE, reported |-> <<0, 0>>]

----------------------------------------------------------------------------
(* dashboard/components/navigation.py and the main() of
   dashboard/pages/2_Municipality_Profile.py.  st.session_state is a record of
   the two navigation keys, each an optional string: <<>> when the key is
   absent, <<s>> when it holds s. *)

(* the id_municipio values of the ranking table (IBGE codes, as text) *)
MunicipioIds == {"3550308", "4106902"}

(* the nome_municipio values passed along: none, a name, a name with state *)
MunicipioNames == {"", "Curitiba", "Sao Paulo - SP"}

(* st.session_state without the navigation keys *)
NoNavigation == [selected_municipio_id |-> NoString, selected_municipio_name |-> NoString]

(* navigate_to_municipality, its two assignments *)
SetNavigation(state, id, name) ==
    [state EXCEPT !.selected_municipio_id = <<id>>,
                  !.selected_municipio_name = <<name>>]

(* get_selected_municipality: st.session_state.get("selected_municipio_id") *)
GetSelectedMunicipality(state) == state.selected_municipio_id

(* get_selected_municipality_name *)
GetSelectedMunicipalityName(state) == state.selected_municipio_name

(* the navigation state cleared of the id alone *)
ClearNavigationIdOnly(state) == [state EXCEPT !.selected_municipio_id = NoString]

(* clear_navigation_state: both keys popped *)
ClearNavigationState(state) ==
    [state EXCEPT !.selected_municipio_id = NoString,
                  !.selected_municipio_name = NoString]

(* name.split(" - ")[0] *)
SplitName(name) == IF name = "Sao Paulo - SP" THEN "Sao Paulo" ELSE name

(* default_search = nav_municipio_name.split(" - ")[0] if nav_municipio_name else "" *)
DefaultSearch(oname) == IF Truthy(oname) THEN SplitName(oname[1]) ELSE ""

(* what the sidebar search gives a render that has no navigation id: fewer
   than 2 characters typed, no municipality found, or one selected *)
SearchOutcomes ==
    {[source |-> "hint", selected |-> NoString],
     [source |-> "not found", selected |-> NoString]} \cup
    {[source |-> "search", selected |-> <<id>>] : id \in MunicipioIds}

(* nothing rendered *)
NoRender ==
    [source |-> "", selected |-> NoString, default_search |-> "", success |-> NoString]

(* a browser session that has not navigated *)
NoSession ==
    [page |-> "rankings", state |-> NoNavigation, navigations |-> 0,
     target |-> NoString, renders |-> 0, passed |-> 0, last |-> NoRender]

----------------------------------------------------------------------------
(* main(), one action per stage.  A stage that raises ends the run. *)

NoAnalysis ==
    [k_range |-> <<>>, inertias |-> <<>>, silhouettes |-> <<>>,
     best_k_silhouette |-> 0, recommended_k |-> 0]

NotRead == [read |-> FALSE, file |-> NoFile]

NotRun == [done |-> FALSE, df |-> <<>>]

(* no run has completed; ids are the municipalities the run loaded *)
NoExport == [done |-> FALSE, seed |-> <<>>, ids |-> <<>>]

(* where main() goes after a stage whose exception is swallowed *)
AfterStageSwallowed(next, e) == next

(* where main() goes after a stage when the profiles are left out: from the
   ordering straight to the export *)
AfterStageSkipping(next, e) ==
    IF e # NoError THEN "failed" ELSE IF next = "profile" THEN "export" ELSE next

(* where main() goes after a stage: on to the next one, or out with the
   exception e the stage raised *)
AfterStage(next, e) == IF e # NoError THEN "failed" ELSE next

Init ==
    /\ warehouse \in UNION {Warehouses(t) : t \in Tables}
    /\ seedFile = NoFile
    /\ pc = "idle"
    /\ df = <<>>
    /\ X = <<>>
    /\ analysis = NoAnalysis
    /\ labels = <<>>
    /\ profiles = <<>>
    /\ console = <<>>
    /\ err = NoError
    /\ trace = <<>>
    /\ fileAtStart = NoFile
    /\ lastExport = NoExport
    /\ observed = NotRead
    /\ fits = <<>>
    /\ inK = 0
    /\ runA = NotRun
    /\ runB = NotRun
    /\ features = <<>>
    /\ rawFiles = NoRawFiles
    /\ queries = <<>>
    /\ lastCall = NoCall
    /\ extraction = NoExtraction
    /\ session = NoSession
    /\ env = [snapshot |-> 1, faults |-> 0, runs |-> 0]

orderVars == <<inK, runA, runB>>

(* the variables of the other specifications, which main() leaves alone *)
otherVars == <<features, rawFiles, queries, lastCall, extraction, session, env>>

(* dim_municipio as the next run may find it: as it was, without its last
   municipality, or with one municipality more *)
NextTables(rows) ==
    {t \in Tables :
        /\ Len(t) \in (Len(rows) - 1)..(Len(rows) + 1)
        /\ \A i \in 1..Min(Len(t), Len(rows)) : t[i] = rows[i]}

(* python -m src.analysis.clustering: a new process enters main().  Between
   runs the warehouse file may be removed, broken or rebuilt, and
   dim_municipio may lose or gain a municipality. *)
StartRun ==
    /\ pc = "idle"
    /\ env.runs < MaxRuns
    /\ env' = [env EXCEPT !.runs = @ + 1]
    /\ warehouse' \in UNION {Warehouses(t) : t \in NextTables(warehouse.rows)}
    /\ pc' = "load"
    /\ console' = <<"banner">>
    /\ fileAtStart' = seedFile
    /\ UNCHANGED <<seedFile, df, X, analysis, labels, profiles, err, trace,
                   lastExport, observed, fits, orderVars, features, rawFiles,
                   queries, lastCall, extraction, session>>

(* 1. df = load_municipality_data() *)
Load ==
    /\ pc = "load"
    /\ LET e == LoadError(warehouse)
       IN  /\ pc' = AfterStage("prepare", e)
           /\ err' = IF err = NoError THEN e ELSE err
           /\ trace' = Append(trace, "load")
           /\ df' = IF e = NoError THEN LoadMunicipalityData(warehouse) ELSE df
           /\ console' = console \o
                (IF e = NoError THEN <<"1. Loading", "Loaded">> ELSE <<"1. Loading">>)
    /\ UNCHANGED <<warehouse, seedFile, X, analysis, labels, profiles, 
                   fileAtStart, lastExport, observed, fits, orderVars, otherVars>>

(* 2. X_scaled, df = prepare_features(df) *)
Prepare ==
    /\ pc = "prepare"
    /\ LET e == PrepareError(df)
           out == IF e = NoError THEN PrepareFeatures(df) ELSE [X |-> X, df |-> df]
       IN  /\ pc' = AfterStage("scan", e)
           /\ err' = IF err = NoError THEN e ELSE err
           /\ trace' = Append(trace, "prepare")
           /\ X' = out.X
           /\ df' = out.df
           /\ console' = console \o
                (IF e = NoError THEN <<"2. Preparing", "Features">> ELSE <<"2. Preparing">>)
    /\ UNCHANGED <<warehouse, seedFile, analysis, labels, profiles, 
                   fileAtStart, lastExport, observed, fits, orderVars, otherVars>>

(* 3. analysis = find_optimal_clusters(X_scaled) *)
Scan ==
    /\ pc = "scan"
    /\ LET e == ScanError(X, ScanMaxK)
       IN  /\ pc' = AfterStage("scan_report", e)
           /\ err' = IF err = NoError THEN e ELSE err
           /\ trace' = Append(trace, "scan")
           /\ fits' = fits \o ScanFits(X, ScanMaxK)
           /\ IF e = NoError
              THEN \E sil \in SilhouetteLists(X, ScanMaxK) :
                      analysis' = FindOptimalClusters(X, ScanMaxK, sil)
              ELSE analysis' = analysis
           /\ console' = Append(console, "3. Analyzing")
    /\ UNCHANGED <<warehouse, seedFile, df, X, labels, profiles,
                   fileAtStart, lastExport, observed, orderVars, otherVars>>

(* the report of lines 330-331: analysis is read for the line "Best k by
   silhouette" and for nothing else.  Its lists are not read after the report
   and are dropped from the state; the two entries that name a group count
   stay until the production clustering has been called. *)
ScanReport ==
    /\ pc = "scan_report"
    /\ pc' = "cluster"
    /\ console' = console \o <<"Best k", "Using k=5">>
    /\ analysis' = [NoAnalysis EXCEPT
                        !.best_k_silhouette = analysis.best_k_silhouette,
                        !.recommended_k = analysis.recommended_k]
    /\ UNCHANGED <<warehouse, seedFile, df, X, labels, profiles, err, trace,
                   fileAtStart, lastExport, observed, fits, orderVars, otherVars>>

(* the group count taken from the scan instead of the literal *)
ClusterKFromScan(a) == a.best_k_silhouette

(* the n_clusters main() passes to run_clustering: the literal 5, whatever
   analysis holds *)
ClusterK(a) == ProductionK

(* 4. labels, kmeans = run_clustering(X_scaled, n_clusters=5).  X_scaled and
   analysis are not read after it and are dropped from the state. *)
Cluster ==
    /\ pc = "cluster"
    /\ LET k == ClusterK(analysis)
           e == RunClusteringError(X, k)
       IN  /\ pc' = AfterStage("order", e)
           /\ err' = IF err = NoError THEN e ELSE err
           /\ trace' = Append(trace, "cluster")
           /\ fits' = IF KMeansError(X, k) = NoError
                      THEN Append(fits, k) ELSE fits
           /\ IF e = NoError
              THEN labels' \in RunClustering(X, k)
              ELSE labels' = labels
           /\ console' = console \o
                (IF e = NoError THEN <<"4. Running", "Silhouette Score">>
                 ELSE <<"4. Running">>)
    /\ X' = <<>>
    /\ analysis' = NoAnalysis
    /\ UNCHANGED <<warehouse, seedFile, df, profiles,
                   fileAtStart, lastExport, observed, orderVars, otherVars>>

(* 5. df = order_clusters_by_development(df, labels).  labels is not read
   after this point and is dropped from the state. *)
Order ==
    /\ pc = "order"
    /\ pc' = AfterStage("profile", NoError)
    /\ trace' = Append(trace, "order")
    /\ df' \in OrderClustersByDevelopment(df, labels)
    /\ labels' = <<>>
    /\ console' = console \o <<"5. Ordering">>
    /\ UNCHANGED <<warehouse, seedFile, X, analysis, profiles, err, 
                   fileAtStart, lastExport, observed, fits, orderVars, otherVars>>

(* 6. profiles = generate_cluster_profiles(df), and the report of lines
   342-352 *)
Profile ==
    /\ pc = "profile"
    /\ pc' = AfterStage("export", NoError)
    /\ trace' = Append(trace, "profile")
    /\ profiles' \in GenerateClusterProfiles(df)
    /\ console' = console \o <<"6. Generating", "CLUSTER PROFILES">>
    /\ UNCHANGED <<warehouse, seedFile, df, X, analysis, labels, err, 
                   fileAtStart, lastExport, observed, fits, orderVars, otherVars>>

(* 7. export_to_dbt_seed(df), up to the opening of the file by write_csv:
   mkdir of the seeds directory, then the file is created or truncated.
   Either call can fail with OSError, which leaves the file as it is. *)
ExportOpen ==
    /\ pc = "export"
    /\ trace' = Append(trace, "export")
    /\ console' = console \o <<"7. Exporting">>
    /\ \E e \in {NoError, "OSError"} :
          /\ pc' = AfterStage("export_header", e)
          /\ err' = IF err = NoError THEN e ELSE err
          /\ seedFile' = IF e = NoError THEN OpenForWrite(seedFile) ELSE seedFile
    /\ UNCHANGED <<warehouse, df, X, analysis, labels, profiles, 
                   fileAtStart, lastExport, observed, fits, orderVars, otherVars>>

(* write_csv writes the header line, or fails with OSError on the file it
   has truncated *)
ExportHeader ==
    /\ pc = "export_header"
    /\ \E e \in {NoError, "OSError"} :
          /\ pc' = AfterStage("export_rows", e)
          /\ err' = IF err = NoError THEN e ELSE err
          /\ seedFile' = IF e = NoError
                         THEN WriteLines(seedFile, <<CsvLines(SeedDf(df))[1]>>)
                         ELSE seedFile
    /\ UNCHANGED <<warehouse, df, X, analysis, labels, profiles, console, trace,
                   fileAtStart, lastExport, observed, fits, orderVars, otherVars>>

(* write_csv writes the rows (one batch: fewer than 1024 rows) and closes the
   file, and export_to_dbt_seed returns; or it fails with OSError after the
   first written rows of them, which stay in the file *)
ExportRows ==
    /\ pc = "export_rows"
    /\ LET rows == Tail(CsvLines(SeedDf(df)))
       IN  \E written \in 0..Len(rows) :
              LET e == IF written = Len(rows) THEN NoError ELSE "OSError"
              IN  /\ pc' = AfterStage("finish", e)
                  /\ err' = IF err = NoError THEN e ELSE err
                  /\ seedFile' = WriteLines(seedFile, SubSeq(rows, 1, written))
                  /\ console' = IF e = NoError THEN console \o <<"Saved to">>
                                ELSE console
    /\ UNCHANGED <<warehouse, df, X, analysis, labels, profiles, trace,
                   fileAtStart, lastExport, observed, fits, orderVars, otherVars>>

(* the closing report, and return df, profiles *)
Finish ==
    /\ pc = "finish"
    /\ pc' = "done"
    /\ console' = console \o <<"NEXT STEPS">>
    /\ lastExport' = [done |-> TRUE, seed |-> SeedDf(df),
                      ids |-> [i \in DOMAIN LoadMunicipalityData(warehouse) |->
                                 LoadMunicipalityData(warehouse)[i].id_municipio_ibge]]
    /\ UNCHANGED <<warehouse, seedFile, df, X, analysis, labels, profiles, err, trace,
                   fileAtStart, observed, fits, orderVars, otherVars>>

(* the process ends, by return or by the exception: its locals are gone *)
Exit ==
    /\ pc \in {"done", "failed"}
    /\ pc' = "idle"
    /\ df' = <<>>
    /\ X' = <<>>
    /\ analysis' = NoAnalysis
    /\ labels' = <<>>
    /\ profiles' = <<>>
    /\ console' = <<>>
    /\ err' = NoError
    /\ trace' = <<>>
    /\ fits' = <<>>
    /\ fileAtStart' = seedFile
    /\ observed' = NotRead
    /\ UNCHANGED <<warehouse, seedFile, lastExport, orderVars, otherVars>>

(* another process (dbt seed, the dashboard) reads the seed path while
   export_to_dbt_seed runs *)
ReaderRead ==
    /\ pc \in {"export", "export_header", "export_rows"}
    /\ observed # [read |-> TRUE, file |-> seedFile]
    /\ observed' = [read |-> TRUE, file |-> seedFile]
    /\ UNCHANGED <<warehouse, seedFile, pc, df, X, analysis, labels, profiles, console,
                   err, trace, fileAtStart, lastExport, fits, orderVars, otherVars>>

Next ==
    \/ StartRun
    \/ Load
    \/ Prepare
    \/ Scan
    \/ ScanReport
    \/ Cluster
    \/ Order
    \/ Profile
    \/ ExportOpen
    \/ ExportHeader
    \/ ExportRows
    \/ Finish
    \/ Exit
    \/ ReaderRead

Spec == Init /\ [][Next]_vars

----------------------------------------------------------------------------
(* SpecOrder: order_clusters_by_development on every DataFrame of up to
   MaxOrderRows rows and every raw label vector over 0..k-1, called twice on
   the same arguments *)

OrderInputs ==
    UNION {[1..n -> [id_municipio_ibge : {"m"}, idhm_2010 : 1..MaxIdhm]] :
            n \in 1..MaxOrderRows}

InitOrder ==
    /\ inK \in 2..MaxOrderK
    /\ \E d \in OrderInputs :
          /\ df = [i \in DOMAIN d |-> [d[i] EXCEPT !.id_municipio_ibge = IbgeCode(i)]]
          /\ labels \in [DOMAIN d -> 0..(inK - 1)]
    /\ runA = NotRun
    /\ runB = NotRun
    /\ warehouse = [exists |-> FALSE, columns |-> TRUE, rows |-> <<>>]
    /\ seedFile = NoFile
    /\ pc = "idle"
    /\ X = <<>>
    /\ analysis = NoAnalysis
    /\ profiles = <<>>
    /\ console = <<>>
    /\ err = NoError
    /\ trace = <<>>
    /\ fileAtStart = NoFile
    /\ lastExport = NoExport
    /\ observed = NotRead
    /\ fits = <<>>
    /\ features = <<>>
    /\ rawFiles = NoRawFiles
    /\ queries = <<>>
    /\ lastCall = NoCall
    /\ extraction = NoExtraction
    /\ session = NoSession
    /\ env = [snapshot |-> 1, faults |-> 0, runs |-> 0]

mainVars ==
    <<warehouse, seedFile, pc, df, X, analysis, labels, profiles, console, err,
      trace, fileAtStart, lastExport, observed, fits>>

(* a first call order_clusters_by_development(df, labels) *)
OrderFirst ==
    /\ ~runA.done
    /\ \E out \in OrderClustersByDevelopment(df, labels) :
          runA' = [done |-> TRUE, df |-> out]
    /\ UNCHANGED <<mainVars, inK, runB, otherVars>>

(* a second call on the same arguments *)
OrderSecond ==
    /\ runA.done
    /\ ~runB.done
    /\ \E out \in OrderClustersByDevelopment(df, labels) :
          runB' = [done |-> TRUE, df |-> out]
    /\ UNCHANGED <<mainVars, inK, runA, otherVars>>

NextOrder ==
    \/ OrderFirst
    \/ OrderSecond

SpecOrder == InitOrder /\ [][NextOrder]_vars

----------------------------------------------------------------------------
(* SpecExtract: calls of BaseDadosExtractor.extract_table on one output_dir,
   one after the other, while BigQuery's data moves on *)

InitExtract ==
    /\ rawFiles = NoRawFiles
    /\ queries = <<>>
    /\ lastCall = NoCall
    /\ features = <<>>
    /\ inK = 0
    /\ runA = NotRun
    /\ runB = NotRun
    /\ warehouse = [exists |-> FALSE, columns |-> TRUE, rows |-> <<>>]
    /\ seedFile = NoFile
    /\ pc = "idle"
    /\ df = <<>>
    /\ X = <<>>
    /\ analysis = NoAnalysis
    /\ labels = <<>>
    /\ profiles = <<>>
    /\ console = <<>>
    /\ err = NoError
    /\ trace = <<>>
    /\ fileAtStart = NoFile
    /\ lastExport = NoExport
    /\ observed = NotRead
    /\ fits = <<>>
    /\ extraction = NoExtraction
    /\ session = NoSession
    /\ env = [snapshot |-> 1, faults |-> 0, runs |-> 0]

(* extract_table(config, force=force) is called and tests
   output_path.exists() and not force *)
ExtractTableCall ==
    /\ lastCall.pc = "idle"
    /\ Len(queries) < MaxCalls
    /\ \E config \in TableConfigs, force \in BOOLEAN :
          lastCall' = StartCall(rawFiles, queries, config, force)
    /\ UNCHANGED <<mainVars, orderVars, extraction, session, features,
                   rawFiles, queries, env>>

(* return pl.read_parquet(output_path): the content of the file, or the
   exception polars raises on a file that is no complete parquet file (no
   file at all: FileNotFoundError); the exception is not caught or logged by
   extract_table *)
ExtractTableRead ==
    /\ lastCall.pc = "read"
    /\ LET f == rawFiles[OutputPath(lastCall.config)]
       IN  lastCall' = [lastCall EXCEPT
              !.pc = "idle",
              !.done = TRUE,
              !.raised = IF ~f.exists THEN "FileNotFoundError"
                         ELSE IF f.data = NoData THEN "Exception" ELSE NoError,
              !.result = IF f.exists THEN ReadParquet(rawFiles, OutputPath(lastCall.config))
                         ELSE NoData]
    /\ UNCHANGED <<mainVars, orderVars, extraction, session, features,
                   rawFiles, queries, env>>

(* import basedosdados, query = self._build_query(config), bd.read_sql: the
   import fails, the query fails, or BigQuery answers; the exception is
   logged and raised again, or the answer is held as df_pandas *)
ExtractTableQuery ==
    /\ lastCall.pc = "query"
    /\ \E o \in {"ImportError", "Exception", NoError} :
          LET q == BuildQuery(lastCall.config)
          IN  /\ o # NoError => env.faults < MaxFaults
              /\ env' = IF o # NoError THEN [env EXCEPT !.faults = @ + 1] ELSE env
              /\ queries' = IF o = "ImportError" THEN queries ELSE Append(queries, q)
              /\ lastCall' = IF o = NoError
                             THEN [lastCall EXCEPT !.pc = "write",
                                                   !.result = ReadSql(q, env.snapshot)]
                             ELSE [lastCall EXCEPT !.pc = "idle", !.done = TRUE,
                                                   !.raised = o]
    /\ UNCHANGED <<mainVars, orderVars, extraction, session, features, rawFiles>>

(* df = pl.from_pandas(df_pandas), df.write_parquet(output_path), return df:
   the file is written; or an exception before the file is opened leaves the
   directory as it was ("unchanged"); or an exception while writing leaves a
   file that cannot be read ("partial").  The exception is logged and raised
   again *)
ExtractTableWrite ==
    /\ lastCall.pc = "write"
    /\ \E o \in {NoError, "unchanged", "partial"} :
          LET path == OutputPath(lastCall.config)
          IN  /\ o # NoError => env.faults < MaxFaults
              /\ env' = IF o # NoError THEN [env EXCEPT !.faults = @ + 1] ELSE env
              /\ rawFiles' = IF o = NoError THEN WriteParquet(rawFiles, path, lastCall.result)
                             ELSE IF o = "partial" THEN WriteParquet(rawFiles, path, NoData)
                             ELSE rawFiles
              /\ lastCall' = [lastCall EXCEPT
                    !.pc = "idle",
                    !.done = TRUE,
                    !.raised = IF o = NoError THEN NoError ELSE "Exception",
                    !.result = IF o = NoError THEN @ ELSE NoData]
    /\ UNCHANGED <<mainVars, orderVars, extraction, session, features, queries>>

(* the tables of BigQuery are updated: later queries answer from the next
   snapshot *)
BigQueryAdvance ==
    /\ env.snapshot < MaxSnapshot
    /\ env' = [env EXCEPT !.snapshot = @ + 1]
    /\ UNCHANGED <<mainVars, orderVars, extraction, session, features, queries,
                   lastCall, rawFiles>>

NextExtract ==
    \/ ExtractTableCall
    \/ ExtractTableRead
    \/ ExtractTableQuery
    \/ ExtractTableWrite
    \/ BigQueryAdvance

SpecExtract == InitExtract /\ [][NextExtract]_vars

----------------------------------------------------------------------------
(* SpecExtractAll: one call of BaseDadosExtractor.extract_all on an
   output_dir that earlier extractions may have filled: for each
   configuration of a set, the file extract_table writes for it.  The
   argument tables is None or an empty list (<<>>), or a list of
   configurations *)

InitExtractAll ==
    /\ \E S \in SUBSET TableConfigs :
          rawFiles =
             [p \in RawPaths |->
                 IF \E c \in S : OutputPath(c) = p
                 THEN [exists |-> TRUE,
                       data |-> ReadSql(BuildQuery(CHOOSE c \in S : OutputPath(c) = p), 1)]
                 ELSE NoParquet]
    /\ \E S \in SUBSET TableConfigs, force \in BOOLEAN :
          \E arg \in Orderings(S) :
             extraction = [NoExtraction EXCEPT !.arg = arg, !.force = force]
    /\ queries = <<>>
    /\ lastCall = NoCall
    /\ features = <<>>
    /\ inK = 0
    /\ runA = NotRun
    /\ runB = NotRun
    /\ warehouse = [exists |-> FALSE, columns |-> TRUE, rows |-> <<>>]
    /\ seedFile = NoFile
    /\ pc = "idle"
    /\ df = <<>>
    /\ X = <<>>
    /\ analysis = NoAnalysis
    /\ labels = <<>>
    /\ profiles = <<>>
    /\ console = <<>>
    /\ err = NoError
    /\ trace = <<>>
    /\ fileAtStart = NoFile
    /\ lastExport = NoExport
    /\ observed = NotRead
    /\ fits = <<>>
    /\ session = NoSession
    /\ env = [snapshot |-> 1, faults |-> 0, runs |-> 0]

(* extract_all(tables, force=force) up to the loop: the default list taken
   for None or an empty list, results = {} *)
ExtractAllCall ==
    /\ ~extraction.called
    /\ extraction' = [extraction EXCEPT
                        !.called = TRUE,
                        !.tables = IF extraction.arg = <<>> THEN DefaultTables
                                   ELSE extraction.arg,
                        !.i = 1]
    /\ UNCHANGED <<mainVars, orderVars, session, features, rawFiles, queries,
                   lastCall, env>>

(* a turn of the loop begins: "Processing ..." is logged and
   self.extract_table(config, force=force) is called *)
ExtractAllStep ==
    /\ extraction.called
    /\ ~extraction.waiting
    /\ extraction.i \in DOMAIN extraction.tables
    /\ lastCall' = StartCall(rawFiles, queries, extraction.tables[extraction.i],
                             extraction.force)
    /\ extraction' = [extraction EXCEPT
                        !.waiting = TRUE,
                        !.processed = Append(@, extraction.i)]
    /\ UNCHANGED <<mainVars, orderVars, session, features, rawFiles, queries, env>>

(* the turn ends: the DataFrame extract_table returned is stored under
   config.table, or its exception is logged and the loop continues *)
ExtractAllCollect ==
    /\ extraction.waiting
    /\ lastCall.done
    /\ extraction' =
          [extraction EXCEPT
             !.waiting = FALSE,
             !.i = @ + 1,
             !.results = IF lastCall.raised = NoError
                         THEN [@ EXCEPT ![lastCall.config.table] =
                                  [present |-> TRUE, data |-> lastCall.result]]
                         ELSE @,
             !.extracted = IF lastCall.raised = NoError THEN @ \cup {extraction.i} ELSE @]
    /\ UNCHANGED <<mainVars, orderVars, session, features, rawFiles, queries,
                   lastCall, env>>

(* the closing log line "{len(results)}/{len(tables)} tables extracted" and
   return results *)
ExtractAllReturn ==
    /\ extraction.called
    /\ ~extraction.returned
    /\ extraction.i = Len(extraction.tables) + 1
    /\ extraction' = [extraction EXCEPT
                        !.returned = TRUE,
                        !.reported = <<LenResults(extraction.results),
                                       Len(extraction.tables)>>]
    /\ UNCHANGED <<mainVars, orderVars, session, features, rawFiles, queries,
                   lastCall, env>>

NextExtractAll ==
    \/ ExtractAllCall
    \/ ExtractAllStep
    \/ ExtractTableRead
    \/ ExtractTableQuery
    \/ ExtractTableWrite
    \/ ExtractAllCollect
    \/ ExtractAllReturn
    \/ BigQueryAdvance

SpecExtractAll == InitExtractAll /\ [][NextExtractAll]_vars

----------------------------------------------------------------------------
(* SpecNavigation: one browser session of the dashboard, on the ranking table
   of the cluster page and on the profile page, while the warehouse file may
   come and go *)

InitNavigation ==
    /\ session = NoSession
    /\ warehouse = [exists |-> TRUE, columns |-> TRUE, rows |-> <<>>]
    /\ extraction = NoExtraction
    /\ rawFiles = NoRawFiles
    /\ queries = <<>>
    /\ lastCall = NoCall
    /\ features = <<>>
    /\ inK = 0
    /\ runA = NotRun
    /\ runB = NotRun
    /\ seedFile = NoFile
    /\ pc = "idle"
    /\ df = <<>>
    /\ X = <<>>
    /\ analysis = NoAnalysis
    /\ labels = <<>>
    /\ profiles = <<>>
    /\ console = <<>>
    /\ err = NoError
    /\ trace = <<>>
    /\ fileAtStart = NoFile
    /\ lastExport = NoExport
    /\ observed = NotRead
    /\ fits = <<>>
    /\ env = [snapshot |-> 1, faults |-> 0, runs |-> 0]

(* the variables the dashboard leaves alone *)
navRest ==
    <<seedFile, pc, df, X, analysis, labels, profiles, console, err, trace,
      fileAtStart, lastExport, observed, fits, inK, runA, runB, features,
      rawFiles, queries, lastCall, extraction, env>>

(* a row of the ranking table is clicked: render_clickable_ranking_table calls
   navigate_to_municipality(selected_id, selected_name), which sets the two
   keys and switches to the profile page.  The table is drawn from the
   warehouse. *)
NavigateToMunicipality ==
    /\ session.page = "rankings"
    /\ warehouse.exists
    /\ session.navigations < MaxNavigations
    /\ \E id \in MunicipioIds, name \in MunicipioNames :
          session' = [session EXCEPT
                        !.state = SetNavigation(session.state, id, name),
                        !.page = "profile",
                        !.navigations = session.navigations + 1,
                        !.target = <<id>>,
                        !.renders = 0,
                        !.passed = 0,
                        !.last = NoRender]
    /\ UNCHANGED <<warehouse, navRest>>

(* a run of the profile page: main() of 2_Municipality_Profile.py, from the
   data check to the choice of selected_municipio *)
RenderProfile ==
    /\ session.page = "profile"
    /\ session.renders < MaxRenders
    /\ LET nav_municipio_id == GetSelectedMunicipality(session.state)
           nav_municipio_name == GetSelectedMunicipalityName(session.state)
           counted == [session EXCEPT !.renders = session.renders + 1]
           through == [counted EXCEPT !.passed = session.passed + 1]
       IN  IF ~warehouse.exists
           THEN session' = [counted EXCEPT !.last = [NoRender EXCEPT !.source = "no data"]]
           ELSE IF Truthy(nav_municipio_id)
           THEN session' =
                  [through EXCEPT
                     !.state = ClearNavigationState(session.state),
                     !.last = [source |-> "navigation",
                               selected |-> nav_municipio_id,
                               default_search |-> DefaultSearch(nav_municipio_name),
                               success |-> IF Truthy(nav_municipio_name)
                                           THEN nav_municipio_name ELSE NoString]]
           ELSE \E o \in SearchOutcomes :
                  session' =
                    [through EXCEPT
                       !.last = [source |-> o.source,
                                 selected |-> o.selected,
                                 default_search |-> DefaultSearch(nav_municipio_name),
                                 success |-> NoString]]
    /\ UNCHANGED <<warehouse, navRest>>

(* the user goes back to the cluster page; st.session_state stays *)
OpenRankings ==
    /\ session.page = "profile"
    /\ session' = [session EXCEPT !.page = "rankings"]
    /\ UNCHANGED <<warehouse, navRest>>

(* the user opens the profile page from the sidebar *)
OpenProfile ==
    /\ session.page = "rankings"
    /\ session' = [session EXCEPT !.page = "profile"]
    /\ UNCHANGED <<warehouse, navRest>>

(* the warehouse file is removed, or built again *)
WarehouseChange ==
    /\ warehouse' = [warehouse EXCEPT !.exists = ~warehouse.exists]
    /\ UNCHANGED <<session, navRest>>

NextNavigation ==
    \/ NavigateToMunicipality
    \/ RenderProfile
    \/ OpenRankings
    \/ OpenProfile
    \/ WarehouseChange

SpecNavigation == InitNavigation /\ [][NextNavigation]_vars

----------------------------------------------------------------------------
(* SpecScan: find_optimal_clusters(X, max_k) called on the scaled matrix of
   a table and with a max_k that are inputs; inK holds max_k *)

ScanInputs ==
    {<<PrepareFeatures(Table(n, d)).X, max_k>> :
        n \in 1..MaxScanRows, d \in 1..MaxScanDistinct, max_k \in ScanMinK..ScanMaxK}

InitScan ==
    /\ \E in \in ScanInputs :
          /\ X = in[1]
          /\ inK = in[2]
    /\ pc = "scan"
    /\ analysis = NoAnalysis
    /\ err = NoError
    /\ fits = <<>>
    /\ trace = <<>>
    /\ df = <<>>
    /\ features = <<>>
    /\ labels = <<>>
    /\ warehouse = [exists |-> FALSE, columns |-> TRUE, rows |-> <<>>]
    /\ seedFile = NoFile
    /\ profiles = <<>>
    /\ console = <<>>
    /\ fileAtStart = NoFile
    /\ lastExport = NoExport
    /\ observed = NotRead
    /\ runA = NotRun
    /\ runB = NotRun
    /\ rawFiles = NoRawFiles
    /\ queries = <<>>
    /\ lastCall = NoCall
    /\ extraction = NoExtraction
    /\ session = NoSession
    /\ env = [snapshot |-> 1, faults |-> 0, runs |-> 0]

(* analysis = find_optimal_clusters(X, max_k): the loop over k and the
   dictionary returned, or the exception of the first k that raises *)
ScanCall ==
    /\ pc = "scan"
    /\ LET e == ScanError(X, inK)
       IN  /\ pc' = IF e = NoError THEN "returned" ELSE "raised"
           /\ err' = e
           /\ fits' = ScanFits(X, inK)
           /\ IF e = NoError
              THEN \E sil \in SilhouetteLists(X, inK) :
                      analysis' = FindOptimalClusters(X, inK, sil)
              ELSE analysis' = analysis
    /\ trace' = Append(trace, "scan")
    /\ UNCHANGED <<X, inK, df, features, labels, warehouse, seedFile, profiles, console,
                   fileAtStart, lastExport, observed, runA, runB, rawFiles, queries,
                   lastCall, extraction, session, env>>

SpecScan == InitScan /\ [][ScanCall]_vars

----------------------------------------------------------------------------
(* SpecPipeline: four functions of the module called directly, one after the
   other, by a caller other than main() (no scan; the group count k is an
   input, where main() passes 5), on a table that is an input:
   load_municipality_data, prepare_features, run_clustering(X, k),
   order_clusters_by_development. *)

(* the values (idhm_2010, idhm_educacao, renda_per_capita_2010) of the rows
   the tables are built from: complete rows, a null idhm_educacao, an income
   of 0, a null idhm_2010 *)
RowKinds ==
    {<<50, 50, 1>>, <<60, 60, 4>>, <<50, 50, 16>>,
     <<50, None, 1>>, <<60, 50, 0>>, <<60, None, 0>>,
     <<None, 50, 1>>}

(* row i of dim_municipio with the values of kind *)
KindRow(i, kind) ==
    [id_municipio_ibge |-> IbgeCode(i),
     populacao |-> 1000,
     idhm_2010 |-> kind[1],
     idhm_educacao |-> kind[2],
     idhm_renda |-> 50,
     ivs_2010 |-> 30,
     gini_2010 |-> 50,
     renda_per_capita_2010 |-> kind[3]]

KindTables ==
    {[i \in DOMAIN f |-> KindRow(i, f[i])] :
        f \in UNION {[1..n -> RowKinds] : n \in 1..MaxPipeRows}}

(* idhm_2010 of the six municipalities of the scenario, in hundredths *)
ScenarioHdi == <<85, 82, 55, 52, 30, 28>>

(* a table with the idhm_2010 values hdi, every other indicator the same in
   all rows *)
HdiTable(hdi) ==
    [i \in DOMAIN hdi |->
        [id_municipio_ibge |-> IbgeCode(i),
         populacao |-> 1000,
         idhm_2010 |-> hdi[i],
         idhm_educacao |-> 50,
         idhm_renda |-> 50,
         ivs_2010 |-> 30,
         gini_2010 |-> 50,
         renda_per_capita_2010 |-> 512]]

(* the scenario, and the scenario with its last municipality twice *)
ScenarioTables ==
    {HdiTable(ScenarioHdi), HdiTable(Append(ScenarioHdi, ScenarioHdi[Len(ScenarioHdi)]))}

(* the inputs (table, k) *)
PipelineInputs ==
    {<<t, ScanMinK>> : t \in KindTables} \cup
    {<<t, k>> : t \in ScenarioTables, k \in ScanMinK..MaxPipeK}

InitPipeline ==
    /\ \E in \in PipelineInputs :
          /\ warehouse = [exists |-> TRUE, columns |-> TRUE, rows |-> in[1]]
          /\ inK = in[2]
    /\ pc = "load"
    /\ df = <<>>
    /\ features = <<>>
    /\ X = <<>>
    /\ labels = <<>>
    /\ err = NoError
    /\ trace = <<>>
    /\ fits = <<>>
    /\ seedFile = NoFile
    /\ analysis = NoAnalysis
    /\ profiles = <<>>
    /\ console = <<>>
    /\ fileAtStart = NoFile
    /\ lastExport = NoExport
    /\ observed = NotRead
    /\ runA = NotRun
    /\ runB = NotRun
    /\ rawFiles = NoRawFiles
    /\ queries = <<>>
    /\ lastCall = NoCall
    /\ extraction = NoExtraction
    /\ session = NoSession
    /\ env = [snapshot |-> 1, faults |-> 0, runs |-> 0]

(* the variables the pipeline leaves alone *)
restVars ==
    <<warehouse, seedFile, analysis, profiles, fileAtStart, lastExport,
      observed, inK, runA, runB, rawFiles, queries, lastCall, extraction, session, env>>

(* df = load_municipality_data() *)
PipeLoad ==
    /\ pc = "load"
    /\ LET e == LoadError(warehouse)
       IN  /\ pc' = AfterStage("prepare", e)
           /\ err' = e
           /\ df' = IF e = NoError THEN LoadMunicipalityData(warehouse) ELSE df
    /\ trace' = Append(trace, "load")
    /\ UNCHANGED <<features, X, labels, fits, console, restVars>>

(* X_scaled, df = prepare_features(df); features is what its local X holds
   when the median loop has ended *)
PipePrepare ==
    /\ pc = "prepare"
    /\ LET e == PrepareError(df)
       IN  /\ pc' = AfterStage("cluster", e)
           /\ err' = e
           /\ df' = WithDerived(df)
           /\ features' = FilledFeatures(df)
           /\ X' = IF e = NoError THEN PrepareFeatures(df).X ELSE X
    /\ trace' = Append(trace, "prepare")
    /\ UNCHANGED <<labels, fits, console, restVars>>

(* labels, kmeans = run_clustering(X_scaled, n_clusters=k); when it returns
   it has printed its "Silhouette Score: ..." line *)
PipeCluster ==
    /\ pc = "cluster"
    /\ LET e == RunClusteringError(X, inK)
       IN  /\ pc' = AfterStage("order", e)
           /\ err' = e
           /\ fits' = IF KMeansError(X, inK) = NoError THEN Append(fits, inK) ELSE fits
           /\ IF e = NoError
              THEN labels' \in RunClustering(X, inK)
              ELSE labels' = labels
           /\ console' = IF e = NoError THEN Append(console, "Silhouette Score")
                         ELSE console
    /\ trace' = Append(trace, "cluster")
    /\ UNCHANGED <<df, features, X, restVars>>

(* df = order_clusters_by_development(df, labels) *)
PipeOrder ==
    /\ pc = "order"
    /\ pc' = "done"
    /\ df' \in OrderClustersByDevelopment(df, labels)
    /\ trace' = Append(trace, "order")
    /\ UNCHANGED <<features, X, labels, err, fits, console, restVars>>

NextPipeline ==
    \/ PipeLoad
    \/ PipePrepare
    \/ PipeCluster
    \/ PipeOrder

SpecPipeline == InitPipeline /\ [][NextPipeline]_vars

----------------------------------------------------------------------------
(* Properties of order_clusters_by_development (SpecOrder) *)

(* the rows of a result that carry cluster_id g *)
GroupOf(out, g) == {i \in DOMAIN out : out[i].cluster_id = g}

(* the mean idhm_2010 of the rows of a result that carry cluster_id g *)
MeanOfGroup(out, g) ==
    [sum |-> SumOver([i \in DOMAIN out |-> out[i].idhm_2010], GroupOf(out, g)),
     len |-> Cardinality(GroupOf(out, g))]

RawIds == {labels[i] : i \in DOMAIN labels}

(* C1 - Partition completeness: the result has the rows of the input, no
   more and no fewer and in their order; every row carries one cluster_id in
   0..k-1; the groups of rows by cluster_id are pairwise disjoint and their
   union is the whole input. *)
C1_PartitionComplete ==
    runA.done =>
        /\ DOMAIN runA.df = DOMAIN df
        /\ \A i \in DOMAIN df :
              /\ runA.df[i].id_municipio_ibge = df[i].id_municipio_ibge
              /\ runA.df[i].cluster_id \in 0..(inK - 1)
        /\ UNION {GroupOf(runA.df, g) : g \in 0..(inK - 1)} = DOMAIN df
        /\ \A g, h \in 0..(inK - 1) :
              g # h => GroupOf(runA.df, g) \cap GroupOf(runA.df, h) = {}

(* every one of the k raw groups has a member, on a DataFrame of 3 rows or more *)
C1_Witness ==
    /\ runA.done
    /\ RawIds = 0..(inK - 1)
    /\ Len(df) >= 3

(* C2 - Determinism: two runs on the same input, with the same raw labels
   (KMeans is seeded), give every municipality the same cluster_id and the
   same cluster_label. *)
C2_Deterministic ==
    (runA.done /\ runB.done) => runA.df = runB.df

(* C3 - Ordering invariant: for ordered ids i < j that have members, the mean
   idhm_2010 of group i is at least that of group j. *)
C3_OrderedByMean ==
    runA.done =>
        \A g, h \in {runA.df[i].cluster_id : i \in DOMAIN runA.df} :
            g < h => MeanGE(MeanOfGroup(runA.df, g), MeanOfGroup(runA.df, h))

(* two groups of different mean, the raw id of the better one the larger *)
C3_Witness ==
    /\ runA.done
    /\ \E i, j \in DOMAIN df :
          /\ labels[i] < labels[j]
          /\ runA.df[i].cluster_id > runA.df[j].cluster_id
          /\ ~MeanGE(MeanOfGroup(runA.df, runA.df[i].cluster_id),
                     MeanOfGroup(runA.df, runA.df[j].cluster_id))

(* C4 - The raw-to-ordered mapping is a bijection between the raw ids in use
   and the ordered ids 0..m-1, applied to every row alike: two rows get the
   same cluster_id if and only if they had the same raw id. *)
C4_MappingBijective ==
    runA.done =>
        /\ \A i, j \in DOMAIN df :
              (runA.df[i].cluster_id = runA.df[j].cluster_id) <=> (labels[i] = labels[j])
        /\ {runA.df[i].cluster_id : i \in DOMAIN df} = 0..(Cardinality(RawIds) - 1)

(* two raw groups of equal mean, and a third group *)
C4_Witness ==
    /\ runA.done
    /\ Cardinality(RawIds) >= 3
    /\ \E i, j \in DOMAIN df :
          /\ labels[i] # labels[j]
          /\ MeanEQ(MeanOfGroup(runA.df, runA.df[i].cluster_id),
                    MeanOfGroup(runA.df, runA.df[j].cluster_id))

(* C21 - Ordering tie-break: of two raw groups with identical mean idhm_2010
   the one with the smaller raw id gets the smaller cluster_id. *)
C21_TieBreakByRawId ==
    runA.done =>
        \A i, j \in DOMAIN df :
            (/\ labels[i] < labels[j]
             /\ MeanEQ(MeanOfGroup(runA.df, runA.df[i].cluster_id),
                       MeanOfGroup(runA.df, runA.df[j].cluster_id))) =>
                runA.df[i].cluster_id < runA.df[j].cluster_id

----------------------------------------------------------------------------
(* Properties of main() (Spec) *)

InTrace(stage) == \E i \in DOMAIN trace : trace[i] = stage

(* the stage this run is in, or ended in *)
LastStage == trace[Len(trace)]

(* the seed file export_to_dbt_seed writes for the df of this run *)
NewFile == [exists |-> TRUE, lines |-> CsvLines(SeedDf(df))]

(* the number of groups of the partition run_clustering returned: labels
   until order_clusters_by_development has run, cluster_id after it *)
GroupsFormed ==
    IF pc = "order" THEN Cardinality({labels[i] : i \in DOMAIN labels})
    ELSE Cardinality({df[i].cluster_id : i \in DOMAIN df})

(* C5 - Label alignment: in every row that order_clusters_by_development
   returned to main(), cluster_id is a key of the label table and
   cluster_label is the entry of the table at cluster_id. *)
C5_LabelAlignment ==
    InTrace("order") =>
        \A i \in DOMAIN df :
            /\ df[i].cluster_id \in DOMAIN CLUSTER_LABELS
            /\ df[i].cluster_label = CLUSTER_LABELS[df[i].cluster_id]

(* the five ids are all in use *)
C5_Witness ==
    /\ InTrace("order")
    /\ {df[i].cluster_id : i \in DOMAIN df} = DOMAIN CLUSTER_LABELS

(* C6 - Export round-trip: whenever a run has completed and no later run is
   in the middle of writing, the seed file read back is the mapping the most
   recent completed run computed in memory: the three columns in order, one
   row per municipality of that run, and nothing of an earlier file. *)
C6_ExportRoundTrip ==
    (lastExport.done /\ pc \notin {"export_header", "export_rows", "finish"}) =>
        /\ seedFile.exists
        /\ Len(seedFile.lines) = 1 + Len(lastExport.ids)
        /\ seedFile.lines[1] = <<"id_municipio_ibge", "cluster_id", "cluster_label">>
        /\ ReadCsv(seedFile) = lastExport.seed
        /\ \A i \in DOMAIN lastExport.seed :
              lastExport.seed[i].id_municipio_ibge = lastExport.ids[i]

(* C7 - Atomic export: what a concurrent reader reads from the seed path
   while export_to_dbt_seed runs is the complete previous file or the
   complete new file. *)
C7_AtomicExport ==
    observed.read => observed.file \in {fileAtStart, NewFile}

(* C8 - No export on failure: when a stage before the export raises, the run
   is over, no later stage has been entered, and the seed file is as it was
   when the run started; when the warehouse cannot be read, nothing has been
   computed. *)
C8_NoExportOnFailure ==
    (err # NoError /\ LastStage # "export") =>
        /\ pc = "failed"
        /\ ~InTrace("export")
        /\ seedFile = fileAtStart
        /\ \E n \in 1..6 :
              trace = SubSeq(<<"load", "prepare", "scan", "cluster", "order", "profile">>, 1, n)
        /\ (LastStage = "load" => (df = <<>> /\ X = <<>> /\ fits = <<>> /\ profiles = <<>>))

(* the warehouse is gone at the run after a completed export *)
C8_Witness ==
    /\ pc = "failed"
    /\ err = "FileNotFoundError"
    /\ fileAtStart.exists
    /\ lastExport.done

(* C9 - With fewer qualifying rows than the group count k the run fails with
   InsufficientDataError and no partition is attempted. *)
C9_InsufficientData ==
    (InTrace("prepare") /\ pc \in {"failed", "done"} /\ Len(df) < ProductionK) =>
        /\ pc = "failed"
        /\ err = "InsufficientDataError"
        /\ fits = <<>>

(* C10 - When the partition run_clustering returned has fewer than k
   non-empty groups, the run has aborted with DegenerateClusterError and the
   seed file is as it was when the run started. *)
C10_DegenerateAborts ==
    (InTrace("cluster") /\ err = NoError /\ GroupsFormed < ProductionK) =>
        /\ pc = "failed"
        /\ seedFile = fileAtStart

----------------------------------------------------------------------------
(* Properties of main() (Spec), continued *)

(* C13 - Profile completeness: the profiles main() got from
   generate_cluster_profiles hold exactly one row for every group id of
   0..k-1, a group without members included, whose row reports the count
   zero. *)
C13_ProfileCompleteness ==
    InTrace("profile") =>
        \A g \in 0..(ProductionK - 1) :
            /\ Cardinality({i \in DOMAIN profiles : profiles[i].cluster_id = g}) = 1
            /\ \A i \in DOMAIN profiles :
                  profiles[i].cluster_id = g =>
                      profiles[i].num_municipios =
                          Cardinality({j \in DOMAIN df : df[j].cluster_id = g})

(* C18 - The k-scan never overrides the production group count: whatever
   best_k_silhouette the scan returned, the step of main() that leaves stage 4
   has called KMeans with k = 5 and with no other k, and the labels it got are
   a partition into min(5, number of distinct rows) groups of 0..4. *)
C18_ScanNeverOverrides ==
    [][(pc = "cluster" /\ pc' # "cluster") =>
          /\ fits' \in {fits, Append(fits, ProductionK)}
          /\ (pc' = "order" =>
                /\ fits' = Append(fits, ProductionK)
                /\ DOMAIN labels' = DOMAIN X
                /\ {labels'[i] : i \in DOMAIN labels'} \subseteq 0..(ProductionK - 1)
                /\ Cardinality({labels'[i] : i \in DOMAIN labels'}) =
                      Min(ProductionK, Cardinality(DistinctRows(X))))]_vars

(* the scan has returned a best k other than 5 and main() is at stage 4 *)
C18_Witness ==
    /\ pc = "cluster"
    /\ analysis.best_k_silhouette \in ScanMinK..ScanMaxK
    /\ analysis.best_k_silhouette # ProductionK
    /\ InTrace("scan")

(* C19 - Partial results are never surfaced: a run of main() that has failed
   has printed no cluster profile and has left the seed file as it was. *)
C19_NoPartialResults ==
    pc = "failed" =>
        /\ \A i \in DOMAIN console : console[i] # "CLUSTER PROFILES"
        /\ seedFile = fileAtStart

(* the stages of main(), in the order of its text *)
Stages == <<"load", "prepare", "scan", "cluster", "order", "profile", "export">>

(* C24 - Stage ordering: in every run of main() the stages entered so far are
   a beginning of load, prepare, (scan,) cluster, order, profile, export, each
   at most once; a run that has returned has been through all of them; the
   export has not been entered, and the seed file not touched, before the
   ordering and the profiling have completed; the warehouse is loaded once. *)
C24_StageOrdering ==
    /\ \E n \in 0..Len(Stages) : trace = SubSeq(Stages, 1, n)
    /\ Cardinality({i \in DOMAIN trace : trace[i] = "load"}) <= 1
    /\ pc \notin {"idle", "load"} => InTrace("load")
    /\ pc \in {"finish", "done"} => trace = Stages
    /\ (InTrace("export") \/ seedFile # fileAtStart) =>
          /\ InTrace("order")
          /\ InTrace("profile")
          /\ InTrace("export")
          /\ Len(profiles) >= 1
          /\ \A i \in DOMAIN df : "cluster_id" \in DOMAIN df[i]

(* a run has written its file and returned *)
C24_Witness ==
    /\ pc = "done"
    /\ seedFile # fileAtStart
    /\ Len(df) >= ProductionK

(* find_optimal_clusters(X, max_k) has returned: one inertia and one
   silhouette for every k of 2..max_k, at the position of k in k_range, from
   one fit per k *)
ScanAligned ==
    /\ Len(analysis.k_range) = inK - ScanMinK + 1
    /\ \A i \in DOMAIN analysis.k_range : analysis.k_range[i] = ScanMinK + i - 1
    /\ DOMAIN analysis.inertias = DOMAIN analysis.k_range
    /\ DOMAIN analysis.silhouettes = DOMAIN analysis.k_range
    /\ fits = analysis.k_range

(* k is a scanned k whose silhouette no other scanned k exceeds *)
HighestSilhouette(k) ==
    /\ k \in ScanMinK..inK
    /\ \A j \in DOMAIN analysis.silhouettes :
          analysis.silhouettes[j] <= analysis.silhouettes[k - ScanMinK + 1]

(* C25, as claimed - the dictionary find_optimal_clusters returned holds one
   inertia and one silhouette per k of 2..max_k, aligned with k_range, and
   its recommended_k is the scanned k of highest silhouette. *)
C25_ScanRecommendation ==
    pc = "returned" =>
        /\ ScanAligned
        /\ HighestSilhouette(analysis.recommended_k)

(* C25, amended - the dictionary holds one inertia and one silhouette per k
   of 2..max_k, aligned with k_range; its best_k_silhouette is the smallest
   scanned k of highest silhouette; its recommended_k is 5 whatever the
   silhouettes are. *)
C25_ScanRecommendationAmended ==
    pc = "returned" =>
        /\ ScanAligned
        /\ HighestSilhouette(analysis.best_k_silhouette)
        /\ \A k \in ScanMinK..(analysis.best_k_silhouette - 1) : ~HighestSilhouette(k)
        /\ analysis.recommended_k = ProductionK

(* the scan of 2..10 has returned on twelve rows, six distinct rows twice
   each: the silhouette is 1.0 from k = 6 on and lower at k = 5 *)
C25_Witness ==
    /\ pc = "returned"
    /\ inK = ScanMaxK
    /\ Len(X) = 12
    /\ Cardinality(DistinctRows(X)) = 6
    /\ analysis.best_k_silhouette = 6
    /\ analysis.silhouettes[5] = MaxSil
    /\ analysis.silhouettes[4] < MaxSil
    /\ analysis.recommended_k = ProductionK
    /\ ~HighestSilhouette(ProductionK)

(* C28 - Profile conservation: in the profiles main() got from
   generate_cluster_profiles the cluster_id values ascend strictly (rows
   sorted, at most one row per id), the label of a row is the label of the
   municipalities of its group, the num_municipios values sum to the number
   of municipalities and the total_populacao values to their total
   population. *)
C28_ProfileConservation ==
    InTrace("profile") =>
        /\ \A i, j \in DOMAIN profiles :
              i < j => profiles[i].cluster_id < profiles[j].cluster_id
        /\ \A i \in DOMAIN profiles : \A r \in DOMAIN df :
              df[r].cluster_id = profiles[i].cluster_id =>
                  df[r].cluster_label = profiles[i].cluster_label
        /\ SumOver([i \in DOMAIN profiles |-> profiles[i].num_municipios],
                   DOMAIN profiles) = Len(df)
        /\ SumOver([i \in DOMAIN profiles |-> profiles[i].total_populacao],
                   DOMAIN profiles) =
              SumOver([r \in DOMAIN df |-> df[r].populacao], DOMAIN df)

(* five groups of two municipalities each, of different total population *)
C28_Witness ==
    /\ InTrace("profile")
    /\ Len(profiles) = ProductionK
    /\ \A i \in DOMAIN profiles : profiles[i].num_municipios = 2
    /\ \E i, j \in DOMAIN profiles :
          profiles[i].total_populacao # profiles[j].total_populacao

(* C27 - The diagnostic scan cannot block production: on an input of at least
   5 qualifying rows on which run_clustering(X, 5) succeeds, the run has not
   ended in the scan. *)
C27_ScanCannotBlock ==
    (/\ InTrace("scan")
     /\ LastStage = "scan"
     /\ Len(df) >= ProductionK
     /\ RunClusteringError(X, ProductionK) = NoError) =>
        pc # "failed"

----------------------------------------------------------------------------
(* Properties of the pipeline functions (SpecPipeline) *)

(* prepare_features has been called and has returned *)
PrepareReturned == InTrace("prepare") /\ ~(pc = "failed" /\ LastStage = "prepare")

(* the local X of prepare_features before the median loop: df holds the
   derived columns once prepare_features has run *)
RawFeatures == FeatureMatrix(df)

(* the rows of df that carry cluster_id g, once ordered *)
Members(g) == {i \in DOMAIN df : df[i].cluster_id = g}

(* C11 - Whenever k differs from the number of predefined labels, the
   pipeline has failed with LabelConfigurationError before any clustering was
   computed, and no row carries a label that is not of the table. *)
C11_LabelConfiguration ==
    inK # Cardinality(DOMAIN CLUSTER_LABELS) =>
        /\ fits = <<>>
        /\ InTrace("cluster") => (pc = "failed" /\ err = "LabelConfigurationError")
        /\ pc = "done" =>
              \A i \in DOMAIN df :
                  \E g \in DOMAIN CLUSTER_LABELS : df[i].cluster_label = CLUSTER_LABELS[g]

(* C12 - Finite-feature invariant: on every batch of at least one row,
   prepare_features has not raised, and every entry of the matrix it hands to
   standardization, and of the matrix it returns, is finite. *)
C12_FiniteFeatures ==
    (InTrace("prepare") /\ Len(df) >= 1) =>
        /\ PrepareReturned
        /\ \A i \in DOMAIN features : \A c \in DOMAIN features[i] :
              IsFinite(features[i][c])
        /\ \A i \in DOMAIN X : \A c \in DOMAIN X[i] : X[i][c] # ZNaN

(* C14 - Every row load_municipality_data returned is non-null in each of the
   six indicators used downstream. *)
C14_LoadFilter ==
    (InTrace("load") /\ err = NoError) =>
        \A i \in DOMAIN df :
            \A col \in {"idhm_2010", "idhm_educacao", "idhm_renda", "ivs_2010",
                        "gini_2010", "renda_per_capita_2010"} :
                df[i][col] # None

(* the input is the six-row scenario with k = 2, and the pipeline is through *)
ScenarioDone ==
    /\ warehouse.rows = HdiTable(ScenarioHdi)
    /\ inK = ScanMinK
    /\ pc = "done"

(* C15, as claimed - on the six-row scenario with k = 2 the ordered partition
   has two groups of exactly 3 rows, and the three rows of highest idhm_2010
   have cluster_id 0 and the top label. *)
C15_SixRowScenario ==
    ScenarioDone =>
        /\ Cardinality(Members(0)) = 3
        /\ Cardinality(Members(1)) = 3
        /\ \A i \in 1..3 :
              /\ df[i].cluster_id = 0
              /\ df[i].cluster_label = "Polos de Desenvolvimento"

(* C15, amended - on the six-row scenario with k = 2 the ordered partition
   has two groups, of 2 and 4 rows: the two rows of highest idhm_2010 have
   cluster_id 0 and the top label, the two rows of lowest idhm_2010 have
   cluster_id 1 and the second label, and the two rows between them (0.55,
   0.52) are together in one of the two groups. *)
C15_SixRowScenarioAmended ==
    ScenarioDone =>
        /\ Members(0) \cup Members(1) = DOMAIN df
        /\ {Cardinality(Members(0)), Cardinality(Members(1))} = {2, 4}
        /\ \A i \in 1..2 :
              /\ df[i].cluster_id = 0
              /\ df[i].cluster_label = "Polos de Desenvolvimento"
        /\ \A i \in 5..6 :
              /\ df[i].cluster_id = 1
              /\ df[i].cluster_label = "Desenvolvimento Avancado"
        /\ df[3].cluster_id = df[4].cluster_id

(* the scenario has ended in the partition of lowest inertia: 0.85 and 0.82
   against the other four *)
C15_Witness ==
    /\ ScenarioDone
    /\ Members(0) = {1, 2}
    /\ Members(1) = {3, 4, 5, 6}

(* the value at position p of the finite entries of column c of M, sorted *)
Ranked(M, c, p) ==
    LET fin == {i \in DOMAIN M : IsFinite(M[i][c])}
    IN  CHOOSE v \in {M[i][c] : i \in fin} :
            /\ Cardinality({i \in fin : M[i][c] < v}) < p
            /\ Cardinality({i \in fin : M[i][c] <= v}) >= p

(* C16 - Median replacement: in a column with non-finite entries and at least
   one finite entry, prepare_features has not raised, every finite entry is
   unchanged, every non-finite entry has become the median of the finite
   entries of the column (the middle one, or the mean of the two middle
   ones), and the column is finite in the matrix returned. *)
C16_MedianReplacement ==
    InTrace("prepare") =>
        \A c \in DOMAIN FeatureCols :
            LET fin == {i \in DOMAIN RawFeatures : IsFinite(RawFeatures[i][c])}
                n == Cardinality(fin)
            IN  (fin # {} /\ fin # DOMAIN RawFeatures) =>
                    /\ PrepareReturned
                    /\ \A i \in fin : features[i][c] = RawFeatures[i][c]
                    /\ \A i \in (DOMAIN RawFeatures) \ fin :
                          /\ IsFinite(features[i][c])
                          /\ 2 * features[i][c] =
                                Ranked(RawFeatures, c, (n + 1) \div 2) +
                                Ranked(RawFeatures, c, (n + 2) \div 2)
                    /\ \A i \in DOMAIN X : X[i][c] # ZNaN

(* an income of 0 between two incomes whose logarithms differ *)
C16_Witness ==
    /\ PrepareReturned
    /\ \E i, j, m \in DOMAIN RawFeatures :
          /\ RawFeatures[i][6] = NegInf
          /\ IsFinite(RawFeatures[j][6])
          /\ IsFinite(RawFeatures[m][6])
          /\ RawFeatures[j][6] # RawFeatures[m][6]
          /\ Cardinality({r \in DOMAIN RawFeatures : IsFinite(RawFeatures[r][6])}) = 2

(* C17 - Zero-variance policy: a column that holds one finite value in every
   row is 0 in every row of the standardized matrix; a column of finite
   values that differ is standardized as usual, to mean 0 and variance 1,
   by one scale for all its rows. *)
C17_ZeroVariance ==
    PrepareReturned =>
        \A c \in DOMAIN FeatureCols :
            LET n == Len(features)
                finite == \A i \in DOMAIN features : IsFinite(features[i][c])
                constant == \A i, j \in DOMAIN features : features[i][c] = features[j][c]
            IN  /\ (finite /\ constant) =>
                      \A i \in DOMAIN X : X[i][c] = [num |-> 0, den2 |-> 1]
                /\ (finite /\ ~constant) =>
                      /\ \A i \in DOMAIN X : X[i][c].den2 > 0
                      /\ \A i, j \in DOMAIN X :
                            /\ X[i][c].den2 = X[j][c].den2
                            /\ X[i][c].num - X[j][c].num =
                                  n * (features[i][c] - features[j][c])
                      /\ SumOver([i \in DOMAIN X |-> X[i][c].num], DOMAIN X) = 0
                      /\ SumOver([i \in DOMAIN X |-> X[i][c].num * X[i][c].num], DOMAIN X) =
                            n * X[1][c].den2

(* a batch in which idhm_renda is constant and idhm_2010 is not *)
C17_Witness ==
    /\ PrepareReturned
    /\ Len(features) >= 2
    /\ \A i, j \in DOMAIN features : features[i][3] = features[j][3]
    /\ \E i, j \in DOMAIN features : features[i][1] # features[j][1]
    /\ \A i \in DOMAIN features : IsFinite(features[i][1])

(* C26 - Row alignment across stages: prepare_features keeps the rows that
   were loaded, in their order, and row i of the matrix it returns is made
   from row i of the DataFrame (two rows compare in a column of the matrix as
   their features do); order_clusters_by_development attaches labels[i] to
   row i, so that two municipalities share a cluster_id exactly when their own
   rows of the matrix were put in the same raw group. *)
C26_RowAlignment ==
    /\ InTrace("prepare") =>
          /\ Len(df) = Len(LoadMunicipalityData(warehouse))
          /\ \A i \in DOMAIN df :
                df[i].id_municipio_ibge =
                    LoadMunicipalityData(warehouse)[i].id_municipio_ibge
    /\ PrepareReturned =>
          /\ DOMAIN X = DOMAIN df
          /\ \A i, j \in DOMAIN df : \A c \in DOMAIN FeatureCols :
                (IsFinite(RawFeatures[i][c]) /\ IsFinite(RawFeatures[j][c])) =>
                    /\ (RawFeatures[i][c] < RawFeatures[j][c]) <=>
                          (X[i][c].num < X[j][c].num)
                    /\ (RawFeatures[i][c] = RawFeatures[j][c]) <=>
                          (X[i][c].num = X[j][c].num)
    /\ pc = "done" =>
          /\ DOMAIN labels = DOMAIN df
          /\ \A i, j \in DOMAIN df :
                /\ (df[i].cluster_id = df[j].cluster_id) <=> (labels[i] = labels[j])
                /\ X[i] = X[j] => df[i].cluster_id = df[j].cluster_id

(* three municipalities, the first two alike and in one group, the third in
   the other *)
C26_Witness ==
    /\ pc = "done"
    /\ Len(df) = 3
    /\ X[1] = X[2]
    /\ X[2] # X[3]
    /\ df[1].cluster_id = df[2].cluster_id
    /\ df[2].cluster_id # df[3].cluster_id

----------------------------------------------------------------------------
(* Properties of extract_table (SpecExtract) *)

(* <output_dir>/<output_name or table>.parquet for the configuration of the
   most recent call *)
CallPath ==
    IF lastCall.config.output_name \in {NoString, <<"">>}
    THEN <<lastCall.config.table, ".parquet">>
    ELSE <<lastCall.config.output_name[1], ".parquet">>

(* C20 - Extraction cache: a call of extract_table with force=False that
   found its output file has sent no query, written no file and returned the
   content of the file; a call with force=True never answers from the file:
   when it returns it has sent the query of the configuration, and the file
   at <output_dir>/<output_name or table>.parquet, and no other, has been
   replaced by what it returns. *)
C20_ExtractionCache ==
    lastCall.done =>
        LET before == lastCall.filesBefore
        IN  /\ (~lastCall.force /\ before[CallPath].exists) =>
                  /\ lastCall.raised = NoError
                  /\ queries = lastCall.queriesBefore
                  /\ rawFiles = before
                  /\ lastCall.result = before[CallPath].data
                  /\ lastCall.result # NoData
            /\ (lastCall.force /\ lastCall.raised = NoError) =>
                  /\ Len(queries) = Len(lastCall.queriesBefore) + 1
                  /\ SubSeq(queries, 1, Len(queries) - 1) = lastCall.queriesBefore
                  /\ lastCall.result.query = queries[Len(queries)]
                  /\ lastCall.result.snapshot \in 1..MaxSnapshot
                  /\ rawFiles[CallPath] = [exists |-> TRUE, data |-> lastCall.result]
                  /\ \A p \in RawPaths \ {CallPath} : rawFiles[p] = before[p]

----------------------------------------------------------------------------
(* Properties of extract_all (SpecExtractAll) *)

(* C29 - extract_all has processed every configuration of its list, in list
   order, failures included; the dictionary it returns holds exactly one entry
   per configuration extracted without error; the two numbers of its closing
   log line are the successes and the attempts. *)
C29_ExtractAllResults ==
    extraction.returned =>
        /\ extraction.processed = [i \in DOMAIN extraction.tables |-> i]
        /\ LenResults(extraction.results) = Cardinality(extraction.extracted)
        /\ extraction.reported =
              <<Cardinality(extraction.extracted), Len(extraction.tables)>>

----------------------------------------------------------------------------
(* Properties of the dashboard navigation (SpecNavigation) *)

(* the two keys hold what navigate_to_municipality stored *)
SelectionStored ==
    /\ session.state.selected_municipio_id = session.target
    /\ session.state.selected_municipio_name # NoString

(* the sources of a render that chose by the search box *)
SearchSources == {o.source : o \in SearchOutcomes}

(* C30, as claimed - after a navigation both keys are set until the profile
   page is rendered; the first render after it shows the stored municipality
   and leaves neither key; every later render, until the next navigation,
   finds neither key and chooses by the search box. *)
C30_SelectionConsumedOnce ==
    session.target # NoString =>
        /\ session.renders = 0 => SelectionStored
        /\ session.renders >= 1 => session.state = NoNavigation
        /\ session.renders = 1 =>
              /\ session.last.source = "navigation"
              /\ session.last.selected = session.target
        /\ session.renders >= 2 => session.last.source \in SearchSources

(* C30, amended - after a navigation both keys are set until a render of the
   profile page gets past its data check (a render that finds no warehouse
   returns before it reads them, and leaves them); the first render that gets
   past the check shows the stored municipality and leaves neither key; every
   later render, until the next navigation, finds neither key, and chooses by
   the search box when it gets past the check. *)
C30_SelectionConsumedOnceAmended ==
    session.target # NoString =>
        /\ session.passed = 0 =>
              /\ SelectionStored
              /\ session.renders >= 1 => session.last.source = "no data"
        /\ session.passed >= 1 => session.state = NoNavigation
        /\ (session.passed = 1 /\ session.last.source # "no data") =>
              /\ session.last.source = "navigation"
              /\ session.last.selected = session.target
        /\ (session.passed >= 2 /\ session.last.source # "no data") =>
              session.last.source \in SearchSources

(* a render stopped at the data check, the next one showed the stored
   municipality, and a third one chose by search *)
C30_Witness ==
    /\ session.target # NoString
    /\ session.renders = 3
    /\ session.passed = 2
    /\ session.last.source = "search"
    /\ session.state = NoNavigation

====
